---- MODULE Spec2Model ----
(***************************************************************************)
(* Model of print_server.py: the print coordinator (PrintServer.print_text *)
(* with its job lock and BLE deadline), BLE device resolution, and the     *)
(* chunked, paced BLE delivery loop.                                       *)
(*                                                                         *)
(* Strings are sequences of one-character strings, so that str.lower(),    *)
(* str.startswith() and the ":" test are computed, not assumed.  A         *)
(* character outside printable ASCII stands under its code point, as in    *)
(* "U+000B", the controls \t \n \f \r excepted.                            *)
(***************************************************************************)
EXTENDS Integers, Sequences, FiniteSets, TLC

\* ---------------------------------------------------------------- bounds
MaxJobs == 2        \* requests issued to print_text in the concurrency specification
MaxFairJobs == 1    \* requests issued to print_text in the fair specification
MaxData == 4        \* longest command stream the encoder returns
MaxMtu == 3         \* largest img_mtu a registry profile carries
MaxScan == 2        \* most devices one discovery scan returns
MaxQuery == 2       \* most parameters a query string carries
MaxPairs == 2       \* most keys the JSON object of a body carries
MaxText == 3        \* longest text compose_image is given
MaxWidth == 7       \* widest paper, in dots
MaxColumns == 2     \* most columns the text area holds
MaxLineHeight == 3  \* tallest line of the fitted font, in dots

\* ------------------------------------------------------- program constants
DefaultBleMtu == 20         \* model.img_mtu or 20
DefaultSerialMtu == 180     \* model.img_mtu or 180
DefaultIntervalMs == 4      \* model.interval_ms or 4

\* Python's None where a string is expected (a name, a path, a model number): a
\* sequence that is no string of characters.  Errors and outcomes are plain strings.
NoneStr == <<"None">>
NoError == "None"
\* bool(s) for an optional string
Truthy(s) == s # NoneStr /\ s # <<>>

\* ------------------------------------------------------------- strings
\* chr(n).  The printable characters of ASCII and the controls \t \n \f \r stand as
\* themselves; every other character, and the grave accent, which no string of this
\* module can hold, stands under its code point, as in "U+00C0".
Ascii ==
 <<
    " ", "!", "\"", "#", "$", "%", "&", "'", "(", ")", "*", "+", ",", "-", ".", "/",
    "0", "1", "2", "3", "4", "5", "6", "7", "8", "9", ":", ";", "<", "=", ">", "?",
    "@", "A", "B", "C", "D", "E", "F", "G", "H", "I", "J", "K", "L", "M", "N", "O",
    "P", "Q", "R", "S", "T", "U", "V", "W", "X", "Y", "Z", "[", "\\", "]", "^", "_",
    "U+0060", "a", "b", "c", "d", "e", "f", "g", "h", "i", "j", "k", "l", "m", "n", "o",
    "p", "q", "r", "s", "t", "u", "v", "w", "x", "y", "z", "{", "|", "}", "~" >>
HexDigits == <<"0", "1", "2", "3", "4", "5", "6", "7", "8", "9", "A", "B", "C", "D", "E", "F">>
RECURSIVE Hex(_, _)
Hex(n, width) ==
    IF n = 0 /\ width <= 0 THEN ""
    ELSE Hex(n \div 16, width - 1) \o HexDigits[(n % 16) + 1]
Chr(n) ==
    CASE n = 9 -> "\t"
      [] n = 10 -> "\n"
      [] n = 12 -> "\f"
      [] n = 13 -> "\r"
      [] n \in 32..126 -> Ascii[n - 31]
      [] OTHER -> "U+" \o Hex(n, 4)

\* The simple lower-case mappings of the Unicode database the interpreter carries
\* (14.0.0): <<first, last, step, delta>> maps first, first + step, ..., last each to
\* the character delta code points on.
LowerRules ==
    {
      <<\H0041, \H005A, 1, 32>>, <<\H00C0, \H00D6, 1, 32>>, <<\H00D8, \H00DE, 1, 32>>,
      <<\H0100, \H012E, 2, 1>>, <<\H0132, \H0136, 2, 1>>, <<\H0139, \H0147, 2, 1>>,
      <<\H014A, \H0176, 2, 1>>, <<\H0178, \H0178, 1, -121>>, <<\H0179, \H017D, 2, 1>>,
      <<\H0181, \H0181, 1, 210>>, <<\H0182, \H0184, 2, 1>>, <<\H0186, \H0186, 1, 206>>,
      <<\H0187, \H0187, 1, 1>>, <<\H0189, \H018A, 1, 205>>, <<\H018B, \H018B, 1, 1>>,
      <<\H018E, \H018E, 1, 79>>, <<\H018F, \H018F, 1, 202>>, <<\H0190, \H0190, 1, 203>>,
      <<\H0191, \H0191, 1, 1>>, <<\H0193, \H0193, 1, 205>>, <<\H0194, \H0194, 1, 207>>,
      <<\H0196, \H0196, 1, 211>>, <<\H0197, \H0197, 1, 209>>, <<\H0198, \H0198, 1, 1>>,
      <<\H019C, \H019C, 1, 211>>, <<\H019D, \H019D, 1, 213>>, <<\H019F, \H019F, 1, 214>>,
      <<\H01A0, \H01A4, 2, 1>>, <<\H01A6, \H01A6, 1, 218>>, <<\H01A7, \H01A7, 1, 1>>,
      <<\H01A9, \H01A9, 1, 218>>, <<\H01AC, \H01AC, 1, 1>>, <<\H01AE, \H01AE, 1, 218>>,
      <<\H01AF, \H01AF, 1, 1>>, <<\H01B1, \H01B2, 1, 217>>, <<\H01B3, \H01B5, 2, 1>>,
      <<\H01B7, \H01B7, 1, 219>>, <<\H01B8, \H01B8, 1, 1>>, <<\H01BC, \H01BC, 1, 1>>,
      <<\H01C4, \H01C4, 1, 2>>, <<\H01C5, \H01C5, 1, 1>>, <<\H01C7, \H01C7, 1, 2>>,
      <<\H01C8, \H01C8, 1, 1>>, <<\H01CA, \H01CA, 1, 2>>, <<\H01CB, \H01DB, 2, 1>>,
      <<\H01DE, \H01EE, 2, 1>>, <<\H01F1, \H01F1, 1, 2>>, <<\H01F2, \H01F4, 2, 1>>,
      <<\H01F6, \H01F6, 1, -97>>, <<\H01F7, \H01F7, 1, -56>>, <<\H01F8, \H021E, 2, 1>>,
      <<\H0220, \H0220, 1, -130>>, <<\H0222, \H0232, 2, 1>>, <<\H023A, \H023A, 1, 10795>>,
      <<\H023B, \H023B, 1, 1>>, <<\H023D, \H023D, 1, -163>>, <<\H023E, \H023E, 1, 10792>>,
      <<\H0241, \H0241, 1, 1>>, <<\H0243, \H0243, 1, -195>>, <<\H0244, \H0244, 1, 69>>,
      <<\H0245, \H0245, 1, 71>>, <<\H0246, \H024E, 2, 1>>, <<\H0370, \H0372, 2, 1>>,
      <<\H0376, \H0376, 1, 1>>, <<\H037F, \H037F, 1, 116>>, <<\H0386, \H0386, 1, 38>>,
      <<\H0388, \H038A, 1, 37>>, <<\H038C, \H038C, 1, 64>>, <<\H038E, \H038F, 1, 63>>,
      <<\H0391, \H03A1, 1, 32>>, <<\H03A4, \H03AB, 1, 32>>, <<\H03CF, \H03CF, 1, 8>>,
      <<\H03D8, \H03EE, 2, 1>>, <<\H03F4, \H03F4, 1, -60>>, <<\H03F7, \H03F7, 1, 1>>,
      <<\H03F9, \H03F9, 1, -7>>, <<\H03FA, \H03FA, 1, 1>>, <<\H03FD, \H03FF, 1, -130>>,
      <<\H0400, \H040F, 1, 80>>, <<\H0410, \H042F, 1, 32>>, <<\H0460, \H0480, 2, 1>>,
      <<\H048A, \H04BE, 2, 1>>, <<\H04C0, \H04C0, 1, 15>>, <<\H04C1, \H04CD, 2, 1>>,
      <<\H04D0, \H052E, 2, 1>>, <<\H0531, \H0556, 1, 48>>, <<\H10A0, \H10C5, 1, 7264>>,
      <<\H10C7, \H10C7, 1, 7264>>, <<\H10CD, \H10CD, 1, 7264>>, <<\H13A0, \H13EF, 1, 38864>>,
      <<\H13F0, \H13F5, 1, 8>>, <<\H1C90, \H1CBA, 1, -3008>>, <<\H1CBD, \H1CBF, 1, -3008>>,
      <<\H1E00, \H1E94, 2, 1>>, <<\H1E9E, \H1E9E, 1, -7615>>, <<\H1EA0, \H1EFE, 2, 1>>,
      <<\H1F08, \H1F0F, 1, -8>>, <<\H1F18, \H1F1D, 1, -8>>, <<\H1F28, \H1F2F, 1, -8>>,
      <<\H1F38, \H1F3F, 1, -8>>, <<\H1F48, \H1F4D, 1, -8>>, <<\H1F59, \H1F5F, 2, -8>>,
      <<\H1F68, \H1F6F, 1, -8>>, <<\H1F88, \H1F8F, 1, -8>>, <<\H1F98, \H1F9F, 1, -8>>,
      <<\H1FA8, \H1FAF, 1, -8>>, <<\H1FB8, \H1FB9, 1, -8>>, <<\H1FBA, \H1FBB, 1, -74>>,
      <<\H1FBC, \H1FBC, 1, -9>>, <<\H1FC8, \H1FCB, 1, -86>>, <<\H1FCC, \H1FCC, 1, -9>>,
      <<\H1FD8, \H1FD9, 1, -8>>, <<\H1FDA, \H1FDB, 1, -100>>, <<\H1FE8, \H1FE9, 1, -8>>,
      <<\H1FEA, \H1FEB, 1, -112>>, <<\H1FEC, \H1FEC, 1, -7>>, <<\H1FF8, \H1FF9, 1, -128>>,
      <<\H1FFA, \H1FFB, 1, -126>>, <<\H1FFC, \H1FFC, 1, -9>>, <<\H2126, \H2126, 1, -7517>>,
      <<\H212A, \H212A, 1, -8383>>, <<\H212B, \H212B, 1, -8262>>, <<\H2132, \H2132, 1, 28>>,
      <<\H2160, \H216F, 1, 16>>, <<\H2183, \H2183, 1, 1>>, <<\H24B6, \H24CF, 1, 26>>,
      <<\H2C00, \H2C2F, 1, 48>>, <<\H2C60, \H2C60, 1, 1>>, <<\H2C62, \H2C62, 1, -10743>>,
      <<\H2C63, \H2C63, 1, -3814>>, <<\H2C64, \H2C64, 1, -10727>>, <<\H2C67, \H2C6B, 2, 1>>,
      <<\H2C6D, \H2C6D, 1, -10780>>, <<\H2C6E, \H2C6E, 1, -10749>>, <<\H2C6F, \H2C6F, 1, -10783>>,
      <<\H2C70, \H2C70, 1, -10782>>, <<\H2C72, \H2C72, 1, 1>>, <<\H2C75, \H2C75, 1, 1>>,
      <<\H2C7E, \H2C7F, 1, -10815>>, <<\H2C80, \H2CE2, 2, 1>>, <<\H2CEB, \H2CED, 2, 1>>,
      <<\H2CF2, \H2CF2, 1, 1>>, <<\HA640, \HA66C, 2, 1>>, <<\HA680, \HA69A, 2, 1>>,
      <<\HA722, \HA72E, 2, 1>>, <<\HA732, \HA76E, 2, 1>>, <<\HA779, \HA77B, 2, 1>>,
      <<\HA77D, \HA77D, 1, -35332>>, <<\HA77E, \HA786, 2, 1>>, <<\HA78B, \HA78B, 1, 1>>,
      <<\HA78D, \HA78D, 1, -42280>>, <<\HA790, \HA792, 2, 1>>, <<\HA796, \HA7A8, 2, 1>>,
      <<\HA7AA, \HA7AA, 1, -42308>>, <<\HA7AB, \HA7AB, 1, -42319>>, <<\HA7AC, \HA7AC, 1, -42315>>,
      <<\HA7AD, \HA7AD, 1, -42305>>, <<\HA7AE, \HA7AE, 1, -42308>>, <<\HA7B0, \HA7B0, 1, -42258>>,
      <<\HA7B1, \HA7B1, 1, -42282>>, <<\HA7B2, \HA7B2, 1, -42261>>, <<\HA7B3, \HA7B3, 1, 928>>,
      <<\HA7B4, \HA7C2, 2, 1>>, <<\HA7C4, \HA7C4, 1, -48>>, <<\HA7C5, \HA7C5, 1, -42307>>,
      <<\HA7C6, \HA7C6, 1, -35384>>, <<\HA7C7, \HA7C9, 2, 1>>, <<\HA7D0, \HA7D0, 1, 1>>,
      <<\HA7D6, \HA7D8, 2, 1>>, <<\HA7F5, \HA7F5, 1, 1>>, <<\HFF21, \HFF3A, 1, 32>>,
      <<\H10400, \H10427, 1, 40>>, <<\H104B0, \H104D3, 1, 40>>, <<\H10570, \H10594, 2, 39>>,
      <<\H10571, \H1057A, 1, 39>>, <<\H1057C, \H1058A, 1, 39>>, <<\H1058C, \H10592, 1, 39>>,
      <<\H10594, \H10595, 1, 39>>, <<\H10C80, \H10CB2, 1, 64>>, <<\H118A0, \H118BF, 1, 32>>,
      <<\H16E40, \H16E5F, 1, 32>>, <<\H1E900, \H1E921, 1, 34>> }
\* Every character of a set of code point ranges
CharsOf(ranges) == UNION {{Chr(n) : n \in r[1]..r[2]} : r \in ranges}
\* The characters with the Case_Ignorable property
CaseIgnorable ==
  CharsOf(
    {
      <<\H0027, \H0027>>, <<\H002E, \H002E>>, <<\H003A, \H003A>>, <<\H005E, \H005E>>, <<\H0060, \H0060>>,
      <<\H00A8, \H00A8>>, <<\H00AD, \H00AD>>, <<\H00AF, \H00AF>>, <<\H00B4, \H00B4>>, <<\H00B7, \H00B8>>,
      <<\H02B0, \H036F>>, <<\H0374, \H0375>>, <<\H037A, \H037A>>, <<\H0384, \H0385>>, <<\H0387, \H0387>>,
      <<\H0483, \H0489>>, <<\H0559, \H0559>>, <<\H055F, \H055F>>, <<\H0591, \H05BD>>, <<\H05BF, \H05BF>>,
      <<\H05C1, \H05C2>>, <<\H05C4, \H05C5>>, <<\H05C7, \H05C7>>, <<\H05F4, \H05F4>>, <<\H0600, \H0605>>,
      <<\H0610, \H061A>>, <<\H061C, \H061C>>, <<\H0640, \H0640>>, <<\H064B, \H065F>>, <<\H0670, \H0670>>,
      <<\H06D6, \H06DD>>, <<\H06DF, \H06E8>>, <<\H06EA, \H06ED>>, <<\H070F, \H070F>>, <<\H0711, \H0711>>,
      <<\H0730, \H074A>>, <<\H07A6, \H07B0>>, <<\H07EB, \H07F5>>, <<\H07FA, \H07FA>>, <<\H07FD, \H07FD>>,
      <<\H0816, \H082D>>, <<\H0859, \H085B>>, <<\H0888, \H0888>>, <<\H0890, \H0891>>, <<\H0898, \H089F>>,
      <<\H08C9, \H0902>>, <<\H093A, \H093A>>, <<\H093C, \H093C>>, <<\H0941, \H0948>>, <<\H094D, \H094D>>,
      <<\H0951, \H0957>>, <<\H0962, \H0963>>, <<\H0971, \H0971>>, <<\H0981, \H0981>>, <<\H09BC, \H09BC>>,
      <<\H09C1, \H09C4>>, <<\H09CD, \H09CD>>, <<\H09E2, \H09E3>>, <<\H09FE, \H09FE>>, <<\H0A01, \H0A02>>,
      <<\H0A3C, \H0A3C>>, <<\H0A41, \H0A42>>, <<\H0A47, \H0A48>>, <<\H0A4B, \H0A4D>>, <<\H0A51, \H0A51>>,
      <<\H0A70, \H0A71>>, <<\H0A75, \H0A75>>, <<\H0A81, \H0A82>>, <<\H0ABC, \H0ABC>>, <<\H0AC1, \H0AC5>>,
      <<\H0AC7, \H0AC8>>, <<\H0ACD, \H0ACD>>, <<\H0AE2, \H0AE3>>, <<\H0AFA, \H0AFF>>, <<\H0B01, \H0B01>>,
      <<\H0B3C, \H0B3C>>, <<\H0B3F, \H0B3F>>, <<\H0B41, \H0B44>>, <<\H0B4D, \H0B4D>>, <<\H0B55, \H0B56>>,
      <<\H0B62, \H0B63>>, <<\H0B82, \H0B82>>, <<\H0BC0, \H0BC0>>, <<\H0BCD, \H0BCD>>, <<\H0C00, \H0C00>>,
      <<\H0C04, \H0C04>>, <<\H0C3C, \H0C3C>>, <<\H0C3E, \H0C40>>, <<\H0C46, \H0C48>>, <<\H0C4A, \H0C4D>>,
      <<\H0C55, \H0C56>>, <<\H0C62, \H0C63>>, <<\H0C81, \H0C81>>, <<\H0CBC, \H0CBC>>, <<\H0CBF, \H0CBF>>,
      <<\H0CC6, \H0CC6>>, <<\H0CCC, \H0CCD>>, <<\H0CE2, \H0CE3>>, <<\H0D00, \H0D01>>, <<\H0D3B, \H0D3C>>,
      <<\H0D41, \H0D44>>, <<\H0D4D, \H0D4D>>, <<\H0D62, \H0D63>>, <<\H0D81, \H0D81>>, <<\H0DCA, \H0DCA>>,
      <<\H0DD2, \H0DD4>>, <<\H0DD6, \H0DD6>>, <<\H0E31, \H0E31>>, <<\H0E34, \H0E3A>>, <<\H0E46, \H0E4E>>,
      <<\H0EB1, \H0EB1>>, <<\H0EB4, \H0EBC>>, <<\H0EC6, \H0EC6>>, <<\H0EC8, \H0ECD>>, <<\H0F18, \H0F19>>,
      <<\H0F35, \H0F35>>, <<\H0F37, \H0F37>>, <<\H0F39, \H0F39>>, <<\H0F71, \H0F7E>>, <<\H0F80, \H0F84>>,
      <<\H0F86, \H0F87>>, <<\H0F8D, \H0F97>>, <<\H0F99, \H0FBC>>, <<\H0FC6, \H0FC6>>, <<\H102D, \H1030>>,
      <<\H1032, \H1037>>, <<\H1039, \H103A>>, <<\H103D, \H103E>>, <<\H1058, \H1059>>, <<\H105E, \H1060>>,
      <<\H1071, \H1074>>, <<\H1082, \H1082>>, <<\H1085, \H1086>>, <<\H108D, \H108D>>, <<\H109D, \H109D>>,
      <<\H10FC, \H10FC>>, <<\H135D, \H135F>>, <<\H1712, \H1714>>, <<\H1732, \H1733>>, <<\H1752, \H1753>>,
      <<\H1772, \H1773>>, <<\H17B4, \H17B5>>, <<\H17B7, \H17BD>>, <<\H17C6, \H17C6>>, <<\H17C9, \H17D3>>,
      <<\H17D7, \H17D7>>, <<\H17DD, \H17DD>>, <<\H180B, \H180F>>, <<\H1843, \H1843>>, <<\H1885, \H1886>>,
      <<\H18A9, \H18A9>>, <<\H1920, \H1922>>, <<\H1927, \H1928>>, <<\H1932, \H1932>>, <<\H1939, \H193B>>,
      <<\H1A17, \H1A18>>, <<\H1A1B, \H1A1B>>, <<\H1A56, \H1A56>>, <<\H1A58, \H1A5E>>, <<\H1A60, \H1A60>>,
      <<\H1A62, \H1A62>>, <<\H1A65, \H1A6C>>, <<\H1A73, \H1A7C>>, <<\H1A7F, \H1A7F>>, <<\H1AA7, \H1AA7>>,
      <<\H1AB0, \H1ACE>>, <<\H1B00, \H1B03>>, <<\H1B34, \H1B34>>, <<\H1B36, \H1B3A>>, <<\H1B3C, \H1B3C>>,
      <<\H1B42, \H1B42>>, <<\H1B6B, \H1B73>>, <<\H1B80, \H1B81>>, <<\H1BA2, \H1BA5>>, <<\H1BA8, \H1BA9>>,
      <<\H1BAB, \H1BAD>>, <<\H1BE6, \H1BE6>>, <<\H1BE8, \H1BE9>>, <<\H1BED, \H1BED>>, <<\H1BEF, \H1BF1>>,
      <<\H1C2C, \H1C33>>, <<\H1C36, \H1C37>>, <<\H1C78, \H1C7D>>, <<\H1CD0, \H1CD2>>, <<\H1CD4, \H1CE0>>,
      <<\H1CE2, \H1CE8>>, <<\H1CED, \H1CED>>, <<\H1CF4, \H1CF4>>, <<\H1CF8, \H1CF9>>, <<\H1D2C, \H1D6A>>,
      <<\H1D78, \H1D78>>, <<\H1D9B, \H1DFF>>, <<\H1FBD, \H1FBD>>, <<\H1FBF, \H1FC1>>, <<\H1FCD, \H1FCF>>,
      <<\H1FDD, \H1FDF>>, <<\H1FED, \H1FEF>>, <<\H1FFD, \H1FFE>>, <<\H200B, \H200F>>, <<\H2018, \H2019>>,
      <<\H2024, \H2024>>, <<\H2027, \H2027>>, <<\H202A, \H202E>>, <<\H2060, \H2064>>, <<\H2066, \H206F>>,
      <<\H2071, \H2071>>, <<\H207F, \H207F>>, <<\H2090, \H209C>>, <<\H20D0, \H20F0>>, <<\H2C7C, \H2C7D>>,
      <<\H2CEF, \H2CF1>>, <<\H2D6F, \H2D6F>>, <<\H2D7F, \H2D7F>>, <<\H2DE0, \H2DFF>>, <<\H2E2F, \H2E2F>>,
      <<\H3005, \H3005>>, <<\H302A, \H302D>>, <<\H3031, \H3035>>, <<\H303B, \H303B>>, <<\H3099, \H309E>>,
      <<\H30FC, \H30FE>>, <<\HA015, \HA015>>, <<\HA4F8, \HA4FD>>, <<\HA60C, \HA60C>>, <<\HA66F, \HA672>>,
      <<\HA674, \HA67D>>, <<\HA67F, \HA67F>>, <<\HA69C, \HA69F>>, <<\HA6F0, \HA6F1>>, <<\HA700, \HA721>>,
      <<\HA770, \HA770>>, <<\HA788, \HA78A>>, <<\HA7F2, \HA7F4>>, <<\HA7F8, \HA7F9>>, <<\HA802, \HA802>>,
      <<\HA806, \HA806>>, <<\HA80B, \HA80B>>, <<\HA825, \HA826>>, <<\HA82C, \HA82C>>, <<\HA8C4, \HA8C5>>,
      <<\HA8E0, \HA8F1>>, <<\HA8FF, \HA8FF>>, <<\HA926, \HA92D>>, <<\HA947, \HA951>>, <<\HA980, \HA982>>,
      <<\HA9B3, \HA9B3>>, <<\HA9B6, \HA9B9>>, <<\HA9BC, \HA9BD>>, <<\HA9CF, \HA9CF>>, <<\HA9E5, \HA9E6>>,
      <<\HAA29, \HAA2E>>, <<\HAA31, \HAA32>>, <<\HAA35, \HAA36>>, <<\HAA43, \HAA43>>, <<\HAA4C, \HAA4C>>,
      <<\HAA70, \HAA70>>, <<\HAA7C, \HAA7C>>, <<\HAAB0, \HAAB0>>, <<\HAAB2, \HAAB4>>, <<\HAAB7, \HAAB8>>,
      <<\HAABE, \HAABF>>, <<\HAAC1, \HAAC1>>, <<\HAADD, \HAADD>>, <<\HAAEC, \HAAED>>, <<\HAAF3, \HAAF4>>,
      <<\HAAF6, \HAAF6>>, <<\HAB5B, \HAB5F>>, <<\HAB69, \HAB6B>>, <<\HABE5, \HABE5>>, <<\HABE8, \HABE8>>,
      <<\HABED, \HABED>>, <<\HFB1E, \HFB1E>>, <<\HFBB2, \HFBC2>>, <<\HFE00, \HFE0F>>, <<\HFE13, \HFE13>>,
      <<\HFE20, \HFE2F>>, <<\HFE52, \HFE52>>, <<\HFE55, \HFE55>>, <<\HFEFF, \HFEFF>>, <<\HFF07, \HFF07>>,
      <<\HFF0E, \HFF0E>>, <<\HFF1A, \HFF1A>>, <<\HFF3E, \HFF3E>>, <<\HFF40, \HFF40>>, <<\HFF70, \HFF70>>,
      <<\HFF9E, \HFF9F>>, <<\HFFE3, \HFFE3>>, <<\HFFF9, \HFFFB>>, <<\H101FD, \H101FD>>, <<\H102E0, \H102E0>>,
      <<\H10376, \H1037A>>, <<\H10780, \H10785>>, <<\H10787, \H107B0>>, <<\H107B2, \H107BA>>, <<\H10A01, \H10A03>>,
      <<\H10A05, \H10A06>>, <<\H10A0C, \H10A0F>>, <<\H10A38, \H10A3A>>, <<\H10A3F, \H10A3F>>, <<\H10AE5, \H10AE6>>,
      <<\H10D24, \H10D27>>, <<\H10EAB, \H10EAC>>, <<\H10F46, \H10F50>>, <<\H10F82, \H10F85>>, <<\H11001, \H11001>>,
      <<\H11038, \H11046>>, <<\H11070, \H11070>>, <<\H11073, \H11074>>, <<\H1107F, \H11081>>, <<\H110B3, \H110B6>>,
      <<\H110B9, \H110BA>>, <<\H110BD, \H110BD>>, <<\H110C2, \H110C2>>, <<\H110CD, \H110CD>>, <<\H11100, \H11102>>,
      <<\H11127, \H1112B>>, <<\H1112D, \H11134>>, <<\H11173, \H11173>>, <<\H11180, \H11181>>, <<\H111B6, \H111BE>>,
      <<\H111C9, \H111CC>>, <<\H111CF, \H111CF>>, <<\H1122F, \H11231>>, <<\H11234, \H11234>>, <<\H11236, \H11237>>,
      <<\H1123E, \H1123E>>, <<\H112DF, \H112DF>>, <<\H112E3, \H112EA>>, <<\H11300, \H11301>>, <<\H1133B, \H1133C>>,
      <<\H11340, \H11340>>, <<\H11366, \H1136C>>, <<\H11370, \H11374>>, <<\H11438, \H1143F>>, <<\H11442, \H11444>>,
      <<\H11446, \H11446>>, <<\H1145E, \H1145E>>, <<\H114B3, \H114B8>>, <<\H114BA, \H114BA>>, <<\H114BF, \H114C0>>,
      <<\H114C2, \H114C3>>, <<\H115B2, \H115B5>>, <<\H115BC, \H115BD>>, <<\H115BF, \H115C0>>, <<\H115DC, \H115DD>>,
      <<\H11633, \H1163A>>, <<\H1163D, \H1163D>>, <<\H1163F, \H11640>>, <<\H116AB, \H116AB>>, <<\H116AD, \H116AD>>,
      <<\H116B0, \H116B5>>, <<\H116B7, \H116B7>>, <<\H1171D, \H1171F>>, <<\H11722, \H11725>>, <<\H11727, \H1172B>>,
      <<\H1182F, \H11837>>, <<\H11839, \H1183A>>, <<\H1193B, \H1193C>>, <<\H1193E, \H1193E>>, <<\H11943, \H11943>>,
      <<\H119D4, \H119D7>>, <<\H119DA, \H119DB>>, <<\H119E0, \H119E0>>, <<\H11A01, \H11A0A>>, <<\H11A33, \H11A38>>,
      <<\H11A3B, \H11A3E>>, <<\H11A47, \H11A47>>, <<\H11A51, \H11A56>>, <<\H11A59, \H11A5B>>, <<\H11A8A, \H11A96>>,
      <<\H11A98, \H11A99>>, <<\H11C30, \H11C36>>, <<\H11C38, \H11C3D>>, <<\H11C3F, \H11C3F>>, <<\H11C92, \H11CA7>>,
      <<\H11CAA, \H11CB0>>, <<\H11CB2, \H11CB3>>, <<\H11CB5, \H11CB6>>, <<\H11D31, \H11D36>>, <<\H11D3A, \H11D3A>>,
      <<\H11D3C, \H11D3D>>, <<\H11D3F, \H11D45>>, <<\H11D47, \H11D47>>, <<\H11D90, \H11D91>>, <<\H11D95, \H11D95>>,
      <<\H11D97, \H11D97>>, <<\H11EF3, \H11EF4>>, <<\H13430, \H13438>>, <<\H16AF0, \H16AF4>>, <<\H16B30, \H16B36>>,
      <<\H16B40, \H16B43>>, <<\H16F4F, \H16F4F>>, <<\H16F8F, \H16F9F>>, <<\H16FE0, \H16FE1>>, <<\H16FE3, \H16FE4>>,
      <<\H1AFF0, \H1AFF3>>, <<\H1AFF5, \H1AFFB>>, <<\H1AFFD, \H1AFFE>>, <<\H1BC9D, \H1BC9E>>, <<\H1BCA0, \H1BCA3>>,
      <<\H1CF00, \H1CF2D>>, <<\H1CF30, \H1CF46>>, <<\H1D167, \H1D169>>, <<\H1D173, \H1D182>>, <<\H1D185, \H1D18B>>,
      <<\H1D1AA, \H1D1AD>>, <<\H1D242, \H1D244>>, <<\H1DA00, \H1DA36>>, <<\H1DA3B, \H1DA6C>>, <<\H1DA75, \H1DA75>>,
      <<\H1DA84, \H1DA84>>, <<\H1DA9B, \H1DA9F>>, <<\H1DAA1, \H1DAAF>>, <<\H1E000, \H1E006>>, <<\H1E008, \H1E018>>,
      <<\H1E01B, \H1E021>>, <<\H1E023, \H1E024>>, <<\H1E026, \H1E02A>>, <<\H1E130, \H1E13D>>, <<\H1E2AE, \H1E2AE>>,
      <<\H1E2EC, \H1E2EF>>, <<\H1E8D0, \H1E8D6>>, <<\H1E944, \H1E94B>>, <<\H1F3FB, \H1F3FF>>, <<\HE0001, \HE0001>>,
      <<\HE0020, \HE007F>>, <<\HE0100, \HE01EF>> })
\* The characters with the Cased property that are not Case_Ignorable
Cased ==
  CharsOf(
    {
      <<\H0041, \H005A>>, <<\H0061, \H007A>>, <<\H00AA, \H00AA>>, <<\H00B5, \H00B5>>, <<\H00BA, \H00BA>>,
      <<\H00C0, \H00D6>>, <<\H00D8, \H00F6>>, <<\H00F8, \H01BA>>, <<\H01BC, \H01BF>>, <<\H01C4, \H0293>>,
      <<\H0295, \H02AF>>, <<\H0370, \H0373>>, <<\H0376, \H0377>>, <<\H037B, \H037D>>, <<\H037F, \H037F>>,
      <<\H0386, \H0386>>, <<\H0388, \H038A>>, <<\H038C, \H038C>>, <<\H038E, \H03A1>>, <<\H03A3, \H03F5>>,
      <<\H03F7, \H0481>>, <<\H048A, \H052F>>, <<\H0531, \H0556>>, <<\H0560, \H0588>>, <<\H10A0, \H10C5>>,
      <<\H10C7, \H10C7>>, <<\H10CD, \H10CD>>, <<\H10D0, \H10FA>>, <<\H10FD, \H10FF>>, <<\H13A0, \H13F5>>,
      <<\H13F8, \H13FD>>, <<\H1C80, \H1C88>>, <<\H1C90, \H1CBA>>, <<\H1CBD, \H1CBF>>, <<\H1D00, \H1D2B>>,
      <<\H1D6B, \H1D77>>, <<\H1D79, \H1D9A>>, <<\H1E00, \H1F15>>, <<\H1F18, \H1F1D>>, <<\H1F20, \H1F45>>,
      <<\H1F48, \H1F4D>>, <<\H1F50, \H1F57>>, <<\H1F59, \H1F59>>, <<\H1F5B, \H1F5B>>, <<\H1F5D, \H1F5D>>,
      <<\H1F5F, \H1F7D>>, <<\H1F80, \H1FB4>>, <<\H1FB6, \H1FBC>>, <<\H1FBE, \H1FBE>>, <<\H1FC2, \H1FC4>>,
      <<\H1FC6, \H1FCC>>, <<\H1FD0, \H1FD3>>, <<\H1FD6, \H1FDB>>, <<\H1FE0, \H1FEC>>, <<\H1FF2, \H1FF4>>,
      <<\H1FF6, \H1FFC>>, <<\H2102, \H2102>>, <<\H2107, \H2107>>, <<\H210A, \H2113>>, <<\H2115, \H2115>>,
      <<\H2119, \H211D>>, <<\H2124, \H2124>>, <<\H2126, \H2126>>, <<\H2128, \H2128>>, <<\H212A, \H212D>>,
      <<\H212F, \H2134>>, <<\H2139, \H2139>>, <<\H213C, \H213F>>, <<\H2145, \H2149>>, <<\H214E, \H214E>>,
      <<\H2160, \H217F>>, <<\H2183, \H2184>>, <<\H24B6, \H24E9>>, <<\H2C00, \H2C7B>>, <<\H2C7E, \H2CE4>>,
      <<\H2CEB, \H2CEE>>, <<\H2CF2, \H2CF3>>, <<\H2D00, \H2D25>>, <<\H2D27, \H2D27>>, <<\H2D2D, \H2D2D>>,
      <<\HA640, \HA66D>>, <<\HA680, \HA69B>>, <<\HA722, \HA76F>>, <<\HA771, \HA787>>, <<\HA78B, \HA78E>>,
      <<\HA790, \HA7CA>>, <<\HA7D0, \HA7D1>>, <<\HA7D3, \HA7D3>>, <<\HA7D5, \HA7D9>>, <<\HA7F5, \HA7F6>>,
      <<\HA7FA, \HA7FA>>, <<\HAB30, \HAB5A>>, <<\HAB60, \HAB68>>, <<\HAB70, \HABBF>>, <<\HFB00, \HFB06>>,
      <<\HFB13, \HFB17>>, <<\HFF21, \HFF3A>>, <<\HFF41, \HFF5A>>, <<\H10400, \H1044F>>, <<\H104B0, \H104D3>>,
      <<\H104D8, \H104FB>>, <<\H10570, \H1057A>>, <<\H1057C, \H1058A>>, <<\H1058C, \H10592>>, <<\H10594, \H10595>>,
      <<\H10597, \H105A1>>, <<\H105A3, \H105B1>>, <<\H105B3, \H105B9>>, <<\H105BB, \H105BC>>, <<\H10C80, \H10CB2>>,
      <<\H10CC0, \H10CF2>>, <<\H118A0, \H118DF>>, <<\H16E40, \H16E7F>>, <<\H1D400, \H1D454>>, <<\H1D456, \H1D49C>>,
      <<\H1D49E, \H1D49F>>, <<\H1D4A2, \H1D4A2>>, <<\H1D4A5, \H1D4A6>>, <<\H1D4A9, \H1D4AC>>, <<\H1D4AE, \H1D4B9>>,
      <<\H1D4BB, \H1D4BB>>, <<\H1D4BD, \H1D4C3>>, <<\H1D4C5, \H1D505>>, <<\H1D507, \H1D50A>>, <<\H1D50D, \H1D514>>,
      <<\H1D516, \H1D51C>>, <<\H1D51E, \H1D539>>, <<\H1D53B, \H1D53E>>, <<\H1D540, \H1D544>>, <<\H1D546, \H1D546>>,
      <<\H1D54A, \H1D550>>, <<\H1D552, \H1D6A5>>, <<\H1D6A8, \H1D6C0>>, <<\H1D6C2, \H1D6DA>>, <<\H1D6DC, \H1D6FA>>,
      <<\H1D6FC, \H1D714>>, <<\H1D716, \H1D734>>, <<\H1D736, \H1D74E>>, <<\H1D750, \H1D76E>>, <<\H1D770, \H1D788>>,
      <<\H1D78A, \H1D7A8>>, <<\H1D7AA, \H1D7C2>>, <<\H1D7C4, \H1D7CB>>, <<\H1DF00, \H1DF09>>, <<\H1DF0B, \H1DF1E>>,
      <<\H1E900, \H1E943>>, <<\H1F130, \H1F149>>, <<\H1F150, \H1F169>>, <<\H1F170, \H1F189>> })

\* The characters str.lower() changes whatever stands around them, each with what it
\* becomes: one character, or two for capital I with dot above.
LowerPairs ==
    UNION {{<<Chr(n), <<Chr(n + r[4])>>>> : n \in {m \in r[1]..r[2] : (m - r[1]) % r[3] = 0}}
           : r \in LowerRules}
    \cup {<<Chr(\H0130), <<"i", Chr(\H0307)>>>>}
UpperCase == {p[1] : p \in LowerPairs}
LowerCase == [c \in UpperCase |-> (CHOOSE p \in LowerPairs : p[1] = c)[2]]
\* c.lower() for one character other than capital sigma
Lower(c) == IF c \in UpperCase THEN LowerCase[c] ELSE <<c>>

\* Capital sigma becomes the final small sigma (U+03C2) when a cased character
\* stands before it and none after it, case-ignorable characters skipped on both
\* sides, and the small sigma (U+03C3) otherwise.
CapitalSigma == Chr(\H03A3)
IsFinalSigma(s, k) ==
    LET before == {j \in 1..(k - 1) : s[j] \notin CaseIgnorable}
        after == {j \in (k + 1)..Len(s) : s[j] \notin CaseIgnorable}
    IN  /\ before # {}
        /\ s[CHOOSE j \in before : \A m \in before : m <= j] \in Cased
        /\ after = {} \/ s[CHOOSE j \in after : \A m \in after : j <= m] \notin Cased
LowerAt(s, k) ==
    IF s[k] = CapitalSigma
    THEN <<IF IsFinalSigma(s, k) THEN Chr(\H03C2) ELSE Chr(\H03C3)>>
    ELSE Lower(s[k])

\* str.lower()
RECURSIVE LowerFrom(_, _)
LowerFrom(s, k) == IF k > Len(s) THEN <<>> ELSE LowerAt(s, k) \o LowerFrom(s, k + 1)
LowerStr(s) == LowerFrom(s, 1)

\* str.startswith(prefix)
StartsWith(s, prefix) ==
    /\ Len(prefix) <= Len(s)
    /\ SubSeq(s, 1, Len(prefix)) = prefix

\* ":" in s
HasColon(s) == \E k \in 1..Len(s) : s[k] = ":"

\* (d.name or "")
NameOrEmpty(d) == IF Truthy(d.name) THEN d.name ELSE <<>>

\* -------------------------------------------------- the environment's data
\* Devices a discovery scan may report (BLEDevice: address, name).
DevTi2 == [address |-> <<"a", ":", "1">>, name |-> <<"t", "i", "2">>]
DevTI3 == [address |-> <<"a", ":", "2">>, name |-> <<"T", "I", "3">>]
DevNoName == [address |-> <<"a", ":", "3">>, name |-> NoneStr]
DevTx2 == [address |-> <<"a", ":", "4">>, name |-> <<"t", "x", "2">>]
DevTi == [address |-> <<"a", ":", "5">>, name |-> <<"T", "i">>]
Devices == {DevTi2, DevTI3, DevNoName, DevTx2, DevTi}

RECURSIVE SeqsUpTo(_, _)
SeqsUpTo(S, n) ==
    IF n = 0 THEN {<<>>}
    ELSE LET shorter == SeqsUpTo(S, n - 1)
         IN  shorter \cup {Append(s, x) : s \in {t \in shorter : Len(t) = n - 1}, x \in S}

\* Every scan result of at most MaxScan devices.
ScanResults == SeqsUpTo(Devices, MaxScan)
\* The scan results of the concurrency specifications.
FewScanResults == {<<>>, <<DevTi2>>, <<DevNoName>>}

Bytes == {0, 1}
\* Every command stream of at most MaxData bytes.
Streams == SeqsUpTo(Bytes, MaxData)
\* One stream per length: the streams of the concurrency specifications.
FewStreams == {[k \in 1..n |-> k % 2] : n \in {0, 1, MaxData}}

\* PrinterModelRegistry: the model numbers it knows ("0", "1", ...) and their profiles.
Digits == <<"0", "1", "2", "3", "4", "5", "6", "7", "8", "9">>
ModelNos == {<<Digits[k + 1]>> : k \in 0..MaxMtu}
BogusModel == <<"x">>
DigitOf(c) == CHOOSE k \in 0..9 : Digits[k + 1] = c
Profile(model_no) ==
    LET k == DigitOf(model_no[1])
    IN  [ model_no |-> model_no,
          img_mtu |-> k,
          interval_ms |-> IF k % 2 = 0 THEN 0 ELSE k + 4 ]
NoProfile == [model_no |-> NoneStr, img_mtu |-> 0, interval_ms |-> 0]

\* registry.detect_from_device_name(name): the model number a device name ends in.
InferModel(name) ==
    IF ~Truthy(name) \/ HasColon(name) THEN NoneStr
    ELSE IF <<name[Len(name)]>> \in ModelNos THEN <<name[Len(name)]>> ELSE NoneStr

\* require_model(registry, model_no): the profile, or the error it raises.
RequireModel(model_no) ==
    IF ~Truthy(model_no) THEN [err |-> "ModelRequiredError", model |-> NoProfile]
    ELSE IF model_no \in ModelNos THEN [err |-> NoError, model |-> Profile(model_no)]
    ELSE [err |-> "UnknownModelError", model |-> NoProfile]

\* resolve_model(registry, name, model_no): an override wins, else the name decides.
ResolveModel(name, model_no) ==
    IF Truthy(model_no) THEN RequireModel(model_no)
    ELSE IF InferModel(name) = NoneStr THEN [err |-> "UnknownModelError", model |-> NoProfile]
    ELSE [err |-> NoError, model |-> Profile(InferModel(name))]

\* ------------------------------------------------- _print_ble's expressions
\* next((d for d in devices if (d.name or "").lower().startswith(target.lower())), None)
\* Variant: the names are compared without .lower().
MatchesNameCaseSensitive(d, target) == StartsWith(NameOrEmpty(d), target)
MatchesName(d, target) == StartsWith(LowerStr(NameOrEmpty(d)), LowerStr(target))

\* next((d for d in devices if d.address.lower() == target.lower()), None)
MatchesAddress(d, target) == LowerStr(d.address) = LowerStr(target)

\* next(gen, None) over the devices in scan order: the first index that matches, or 0.
FirstIndex(hits) == IF hits = {} THEN 0 ELSE CHOOSE k \in hits : \A j \in hits : k <= j

FirstByName(devs, target) ==
    FirstIndex({k \in 1..Len(devs) : MatchesName(devs[k], target)})
FirstByAddress(devs, target) ==
    FirstIndex({k \in 1..Len(devs) : MatchesAddress(devs[k], target)})

\* Lines 189-201: the (address, name) the scan result resolves to, or the error.
ResolveByName(devs, target) ==
    LET k == FirstByName(devs, target)
    IN  IF k = 0 THEN [err |-> "DeviceNotFoundError", address |-> <<>>, name |-> NoneStr]
        ELSE [ err |-> NoError,
               address |-> devs[k].address,
               name |-> IF Truthy(devs[k].name) THEN devs[k].name ELSE target ]

\* Variant: the address branch resolves like the name branch.
ResolveByAddressStrict(devs, target) ==
    LET k == FirstByAddress(devs, target)
    IN  IF k = 0 THEN [err |-> "DeviceNotFoundError", address |-> <<>>, name |-> NoneStr]
        ELSE [err |-> NoError, address |-> devs[k].address, name |-> devs[k].name]
ResolveByAddress(devs, target) ==
    LET k == FirstByAddress(devs, target)
    IN  [ err |-> NoError,
          address |-> target,
          name |-> IF k = 0 THEN target ELSE devs[k].name ]

ResolveTarget(devs, target) ==
    IF ~HasColon(target) THEN ResolveByName(devs, target)
    ELSE ResolveByAddress(devs, target)

\* mtu = model.img_mtu or 20
BleMtu(model) == IF model.img_mtu = 0 THEN DefaultBleMtu ELSE model.img_mtu
\* model.img_mtu or 180
SerialMtu(model) == IF model.img_mtu = 0 THEN DefaultSerialMtu ELSE model.img_mtu
\* model.interval_ms or 4
IntervalMs(model) == IF model.interval_ms = 0 THEN DefaultIntervalMs ELSE model.interval_ms

Min(a, b) == IF a <= b THEN a ELSE b

\* data[i : i + mtu], i counted from 0
\* Variant: data[i : i + mtu - 1].
SliceShort(data, i, mtu) == SubSeq(data, i + 1, Min(i + mtu - 1, Len(data)))
Slice(data, i, mtu) == SubSeq(data, i + 1, Min(i + mtu, Len(data)))

\* range(0, len(data), mtu): the offset after i, and whether the loop goes on
\* Variant: the loop writes the chunk at i again.
NextOffsetSame(i, mtu) == i
NextOffset(i, mtu) == i + mtu
InRange(i, data) == i < Len(data)

\* ------------------------------------------------------ the HTTP request
MaxBodyBytes == 10240       \* MAX_BODY_BYTES

\* The characters str.strip() removes: those for which str.isspace() holds.
Whitespace ==
    {
      "\t", "\n", "U+000B", "\f", "\r", "U+001C", "U+001D", "U+001E", "U+001F", " ",
      "U+0085", "U+00A0", "U+1680", "U+2000", "U+2001", "U+2002", "U+2003", "U+2004",
      "U+2005", "U+2006", "U+2007", "U+2008", "U+2009", "U+200A", "U+2028", "U+2029",
      "U+202F", "U+205F", "U+3000" }
\* not s.strip()
IsBlank(s) == \A k \in 1..Len(s) : s[k] \in Whitespace

\* A parsed JSON value (json.loads): None, a str, an int, a list, a dict in key order.
JNull == [t |-> "null"]
JStr(s) == [t |-> "str", s |-> s]
JInt(n) == [t |-> "int", n |-> n]
JList(items) == [t |-> "list", items |-> items]
JDict(pairs) == [t |-> "dict", pairs |-> pairs]
\* The request body is not JSON: json.loads raises JSONDecodeError.
JInvalid == [t |-> "invalid"]
\* The request body is JSON that json.loads gives up on with another error: a
\* RecursionError on values nested deeper than the recursion limit allows.
JRaises == [t |-> "raises"]
\* One key with its value: an item of a dict, or a parameter of a query string.
Pair(k, v) == [k |-> k, v |-> v]

TextKey == <<"t", "e", "x", "t">>
QrKey == <<"q", "r">>

\* str(n)
DecimalDigits == <<"0", "1", "2", "3", "4", "5", "6", "7", "8", "9">>
RECURSIVE Decimal(_)
Decimal(n) ==
    IF n < 0 THEN <<"-">> \o Decimal(0 - n)
    ELSE IF n < 10 THEN <<DecimalDigits[n + 1]>>
    ELSE Decimal(n \div 10) \o <<DecimalDigits[(n % 10) + 1]>>

\* str(value), and f"{value}", of a scalar
StrOf(value) ==
    CASE value.t = "str" -> value.s
      [] value.t = "int" -> Decimal(value.n)
      [] OTHER -> <<"N", "o", "n", "e">>

\* "  " * indent
Pad(indent) == [k \in 1..(2 * indent) |-> " "]

\* "\n".join(lines)
RECURSIVE JoinLines(_)
JoinLines(lines) ==
    IF lines = <<>> THEN <<>>
    ELSE IF Len(lines) = 1 THEN lines[1]
    ELSE lines[1] \o <<"\n">> \o JoinLines(Tail(lines))

\* isinstance(v, (dict, list))
IsNested(v) == v.t \in {"dict", "list"}

\* _format_value(value, indent), with the lines its two loops collect
RECURSIVE FormatValue(_, _)
RECURSIVE DictLines(_, _)
RECURSIVE ListLines(_, _)
FormatValue(value, indent) ==
    CASE value.t = "str" -> value.s
      [] value.t = "dict" -> JoinLines(DictLines(value.pairs, indent))
      [] value.t = "list" -> JoinLines(ListLines(value.items, indent))
      [] OTHER -> StrOf(value)
DictLines(pairs, indent) ==
    IF pairs = <<>> THEN <<>>
    ELSE LET p == Head(pairs)
         IN  ( IF IsNested(p.v)
               THEN <<Pad(indent) \o p.k \o <<":">>, FormatValue(p.v, indent + 1)>>
               ELSE <<Pad(indent) \o p.k \o <<":", " ">> \o StrOf(p.v)>> )
             \o DictLines(Tail(pairs), indent)
ListLines(items, indent) ==
    IF items = <<>> THEN <<>>
    ELSE LET item == Head(items)
         IN  ( IF IsNested(item)
               THEN <<FormatValue(item, indent)>>
               ELSE <<Pad(indent) \o StrOf(item)>> )
             \o ListLines(Tail(items), indent)

\* dict.get(key): the value under the key, None when the key is missing
Get(pairs, key) ==
    IF \E k \in 1..Len(pairs) : pairs[k].k = key
    THEN pairs[CHOOSE k \in 1..Len(pairs) : pairs[k].k = key].v
    ELSE JNull

\* parse_qs(query)[key][0] if key in parse_qs(query) else None: parse_qs leaves out
\* the parameters whose value is blank (keep_blank_values is False).
QueryParam(query, key) ==
    LET kept == {k \in 1..Len(query) : query[k].k = key /\ query[k].v # <<>>}
    IN  IF kept = {} THEN NoneStr ELSE query[FirstIndex(kept)].v

\* What _extract_params and _handle hand back: the parameters, or None together with
\* the statuses of the responses already sent, or the exception that leaves them.
Returned(text, qr) ==
    [ok |-> TRUE, text |-> text, qr |-> qr, sent |-> <<>>, raised |-> NoError]
Refused(sent) ==
    [ok |-> FALSE, text |-> NoneStr, qr |-> NoneStr, sent |-> sent, raised |-> NoError]
Raised(err) ==
    [ok |-> FALSE, text |-> NoneStr, qr |-> NoneStr, sent |-> <<>>, raised |-> err]

\* urlparse(self.path) raises ValueError for a target it rejects (a host with an
\* unbalanced bracket, as in "http://[x/print": Invalid IPv6 URL); the request then
\* has no path.  The path urlparse returns never holds a question mark, so this
\* value is none of them.
NoPath == "?"

\* int(self.headers.get("Content-Length", 0)): the number, or ValueError
LengthOf(clen) ==
    CASE clen.h = "absent" -> [err |-> FALSE, n |-> 0]
      [] clen.h = "text" -> [err |-> TRUE, n |-> 0]
      [] OTHER -> [err |-> FALSE, n |-> clen.n]

\* Lines 257-274: the JSON body.  Only JSONDecodeError is caught at line 260; any
\* other error of json.loads leaves _extract_params with no response sent.
BodyParams(body) ==
    IF body.t = "raises" THEN Raised("RecursionError")
    ELSE IF body.t = "invalid" THEN Refused(<<400>>)
    ELSE IF body.t # "dict" THEN Refused(<<400>>)
    ELSE LET text_val == Get(body.pairs, TextKey)
             qr_val == Get(body.pairs, QrKey)
         IN  IF text_val.t = "null" /\ qr_val.t = "null"
             THEN Returned(FormatValue(body, 0), NoneStr)
             ELSE IF qr_val.t # "null" /\ qr_val.t # "str" THEN Refused(<<400>>)
             ELSE Returned(FormatValue(IF text_val.t # "null" THEN text_val ELSE qr_val, 0),
                           IF qr_val.t = "str" THEN qr_val.s ELSE NoneStr)

\* Lines 243-276: the POST branch.  With no length, or length 0, None is returned
\* and no response is sent.
PostParams(req) ==
    LET length == LengthOf(req.clen)
    IN  IF length.err THEN Refused(<<400>>)
        ELSE IF length.n < 0 THEN Refused(<<400>>)
        ELSE IF length.n > MaxBodyBytes THEN Refused(<<413>>)
        ELSE IF length.n # 0 THEN BodyParams(req.body)
        ELSE Refused(<<>>)

\* _extract_params: the query string decides when it carries text or qr; a target
\* urlparse rejects leaves it by ValueError at line 231.
ExtractParams(req) ==
    LET text_param == QueryParam(req.query, TextKey)
        qr_param == QueryParam(req.query, QrKey)
    IN  IF req.path = NoPath THEN Raised("ValueError")
        ELSE IF text_param # NoneStr \/ qr_param # NoneStr
        THEN IF qr_param # NoneStr
             THEN Returned(IF text_param # NoneStr THEN text_param ELSE qr_param, qr_param)
             ELSE Returned(text_param, NoneStr)
        ELSE IF req.method = "POST" THEN PostParams(req)
        ELSE Refused(<<>>)

\* _handle up to the call of print_text: the parameters print_text is called with,
\* or the responses sent when it is not called, or the exception urlparse (line 287)
\* or _extract_params raised, which _handle does not catch.
Dispatch(req) ==
    IF req.path = NoPath THEN Raised("ValueError")
    ELSE IF req.path # "/print" THEN Refused(<<404>>)
    ELSE LET extracted == ExtractParams(req)
         IN  IF ~extracted.ok THEN extracted
             ELSE IF IsBlank(extracted.text) THEN Refused(<<400>>)
             ELSE extracted

\* except Exception: the errors a job ends with, and the error of a response that
\* cannot be written, are all Exception subclasses.
Exceptions == {"DeviceNotFoundError", "UnknownModelError", "ModelRequiredError",
               "RenderError", "EncodeError", "TransportError", "TimeoutError",
               "BrokenPipeError"}
\* Variant: except RuntimeError.
CaughtRuntimeError(err) == err \in {"DeviceNotFoundError", "RenderError"}
Caught(err) == err \in Exceptions

\* Lines 297-302: the status the handler answers a finished print_text with.
\* Variant: the 200 response is sent whatever print_text did.
StatusAlwaysOk(result) == IF result = "ok" THEN 200 ELSE 200
StatusFor(result) == IF result = "ok" THEN 200 ELSE 500

\* ------------------------------------------------------- compose_image
Max(a, b) == IF a >= b THEN a ELSE b

\* text.split("\n")
RECURSIVE SplitLines(_)
SplitLines(text) ==
    IF \A k \in 1..Len(text) : text[k] # "\n" THEN <<text>>
    ELSE LET k == FirstIndex({j \in 1..Len(text) : text[j] = "\n"})
         IN  <<SubSeq(text, 1, k - 1)>> \o SplitLines(SubSeq(text, k + 1, Len(text)))

\* raw.expandtabs(4): a tab becomes the spaces up to the next multiple of 4 columns;
\* the column count starts again after a line feed or a carriage return.
RECURSIVE ExpandFrom(_, _)
ExpandFrom(raw, col) ==
    IF raw = <<>> THEN <<>>
    ELSE IF Head(raw) = "\t"
         THEN [k \in 1..(4 - (col % 4)) |-> " "] \o ExpandFrom(Tail(raw), 0)
         ELSE IF Head(raw) \in {"\n", "\r"}
         THEN <<Head(raw)>> \o ExpandFrom(Tail(raw), 0)
         ELSE <<Head(raw)>> \o ExpandFrom(Tail(raw), col + 1)
ExpandTabs(raw) == ExpandFrom(raw, 0)

\* wrap_text_lines(line, columns): greedy word wrap.  A line that fits is kept; a
\* longer one is broken at the last space that leaves at most `columns` characters,
\* and where there is none it is broken after `columns` characters.
RECURSIVE WrapTextLines(_, _)
WrapTextLines(line, columns) ==
    IF Len(line) <= columns THEN <<line>>
    ELSE LET spaces == {k \in 2..(columns + 1) : line[k] = " "}
             cut == IF spaces = {} THEN columns + 1
                    ELSE CHOOSE k \in spaces : \A j \in spaces : j <= k
             rest == SubSeq(line, IF spaces = {} THEN cut ELSE cut + 1, Len(line))
         IN  IF IsBlank(rest) THEN <<SubSeq(line, 1, cut - 1)>>
             ELSE <<SubSeq(line, 1, cut - 1)>> \o WrapTextLines(rest, columns)

\* _text_lines(text, columns)
RECURSIVE LinesOf(_, _)
LinesOf(raws, columns) ==
    IF raws = <<>> THEN <<>>
    ELSE LET expanded == ExpandTabs(Head(raws))
         IN  ( IF IsBlank(expanded) THEN << <<>> >>
               ELSE WrapTextLines(expanded, columns) )
             \o LinesOf(Tail(raws), columns)
TextLines(text, columns) == LinesOf(SplitLines(text), columns)

\* qr_size = printer_width // 2, or 0 with no QR data
QrSize(printer_width, qr_data) == IF qr_data # NoneStr THEN printer_width \div 2 ELSE 0
\* text_area_width = printer_width - qr_size, or printer_width with no QR data
\* Variant: the text area is the other half of the paper, in both modes.
TextAreaHalf(printer_width, qr_data) == printer_width \div 2
TextAreaWidth(printer_width, qr_data) ==
    IF qr_data # NoneStr THEN printer_width - QrSize(printer_width, qr_data)
    ELSE printer_width
\* text_block_height = max(1, lh * len(lines))
TextBlockHeight(lh, lines) == Max(1, lh * Len(lines))
\* (total_height - height) // 2
\* Variant: the parts are pasted at the top.
PasteTop(total_height, height) == 0
PasteOffset(total_height, height) == (total_height - height) \div 2

\* A rectangle of the image: its left column, top row, width and height.
Box(x, y, w, h) == [x |-> x, y |-> y, w |-> w, h |-> h]
NoBox == Box(0, 0, 0, 0)
NoImage == [width |-> 0, height |-> 0, qr_box |-> NoBox, text_box |-> NoBox]

\* compose_image(display_text, qr_data, printer_width): the size of the image and
\* where the QR code and the text block are pasted.  `columns` and `lh` are what
\* columns_for_width and font_line_height give for the text area.
ComposeImage(display_text, qr_data, printer_width, columns, lh) ==
    LET qr_size == QrSize(printer_width, qr_data)
        text_area_width == TextAreaWidth(printer_width, qr_data)
        lines == TextLines(display_text, columns)
        text_block_height == TextBlockHeight(lh, lines)
        total_height == Max(qr_size, text_block_height)
    IN  IF qr_data # NoneStr
        THEN [ width |-> printer_width,
               height |-> total_height,
               qr_box |-> Box(0, PasteOffset(total_height, qr_size), qr_size, qr_size),
               text_box |-> Box(qr_size, PasteOffset(total_height, text_block_height),
                                text_area_width, text_block_height) ]
        ELSE [ width |-> text_area_width,
               height |-> text_block_height,
               qr_box |-> NoBox,
               text_box |-> Box(0, 0, text_area_width, text_block_height) ]

\* ------------------------------------------------------- configuration
NameTarget == <<"T", "i">>
AddrTarget == <<"A", ":", "1">>
SerialPath == <<"/", "d">>
ModelOverrides == {NoneStr, BogusModel} \cup ModelNos

\* parse_args() and main(): a transport must be configured.
Configs ==
    { a \in [serial : {NoneStr, SerialPath}, bluetooth : {NoneStr, NameTarget, AddrTarget},
             model : ModelOverrides] :
        Truthy(a.serial) \/ Truthy(a.bluetooth) }
\* The serial transport, or BLE by name, and no override, a known one or an unknown
\* one: the configurations of the concurrency specifications.
FewConfigs ==
    { a \in Configs :
        /\ ~(Truthy(a.serial) /\ Truthy(a.bluetooth))
        /\ a.bluetooth \in {NoneStr, NameTarget}
        /\ a.model \in {NoneStr, BogusModel, <<"2">>} }

\* ------------------------------------------------------------ requests
\* A request: the method, the path and the query parameters of the request line, the
\* Content-Length header, and what json.loads makes of the body that is read.
OtherKey == <<"a">>
QueryValues == {<<>>, <<" ">>, <<"\f">>, <<"h">>, <<"q">>}
QueryPairs == {Pair(k, v) : k \in {TextKey, QrKey}, v \in QueryValues}
Queries == SeqsUpTo(QueryPairs, MaxQuery)

JValues ==
    { JNull, JStr(<<>>), JStr(<<" ">>), JStr(<<"\f">>), JStr(<<"h">>), JStr(<<"q">>), JInt(7),
      JDict(<<Pair(OtherKey, JList(<<JStr(<<"h">>), JInt(7)>>))>>) }
JPairs == {Pair(k, v) : k \in {TextKey, QrKey, OtherKey}, v \in JValues}
\* A dict has each key once.
Objects ==
    { JDict(ps) : ps \in { s \in SeqsUpTo(JPairs, MaxPairs) :
                             \A a, b \in 1..Len(s) : a # b => s[a].k # s[b].k } }
Bodies == Objects \cup {JInvalid, JRaises, JList(<<>>), JStr(<<"h">>), JInt(7)}

NoHeader == [h |-> "absent", n |-> 0]
BadHeader == [h |-> "text", n |-> 0]
Header(n) == [h |-> "int", n |-> n]
ContentLengths ==
    {NoHeader, BadHeader} \cup {Header(n) : n \in {0 - 1, 0, 1, MaxBodyBytes, MaxBodyBytes + 1}}

Request(method, path, query, clen, body) ==
    [method |-> method, path |-> path, query |-> query, clen |-> clen, body |-> body]
Methods == {"GET", "POST"}
Paths == {"/print", "/", NoPath}
TextBody == JDict(<<Pair(TextKey, JStr(<<"h">>))>>)
\* Every query string, on both paths and on a rejected target; every
\* Content-Length; every body.
Requests ==
    {Request(m, p, q, c, JInvalid) : m \in Methods, p \in Paths, q \in Queries,
                                     c \in {NoHeader, BadHeader}}
    \cup {Request(m, "/print", <<>>, c, b) : m \in Methods, c \in ContentLengths,
                                             b \in {JInvalid, TextBody}}
    \cup {Request("POST", "/print", <<>>, Header(1), b) : b \in Bodies}
\* A label request, which _handle passes on to print_text: the request of the
\* specifications that follow print_text alone.
LabelRequest ==
    Request("GET", "/print", <<Pair(TextKey, <<"h">>), Pair(QrKey, <<"q">>)>>, NoHeader, JInvalid)
\* The serial transport without a model, with a known and with an unknown one, and
\* BLE by name: the configurations of the HTTP specification.
HttpConfigs ==
    { a \in FewConfigs : \/ Truthy(a.serial)
                         \/ a.bluetooth = NameTarget /\ a.model = NoneStr }

\* What compose_image is called with, and what the font helpers give for it.
Texts == SeqsUpTo({"a", " ", "\n", "\t", "\r", "\f"}, MaxText)
Renders ==
    [text : Texts, qr : {NoneStr, <<"q">>}, width : 2..MaxWidth,
     columns : 1..MaxColumns, lh : 1..MaxLineHeight]
NoRender == [text |-> <<>>, qr |-> NoneStr, width |-> 0, columns |-> 0, lh |-> 0]

\* threading.Lock() is created unlocked; a held lock is the holder's job number (1, 2, ...).
Unlocked == 0

\* ------------------------------------------------------------- state
VARIABLES
    args,       \* the immutable command-line configuration
    lock,       \* PrintServer._lock: Unlocked, or the job holding it
    pc,         \* per job: where the request is
    outcome,    \* per job: NoError while running, "ok", or the error raised
    cancelled,  \* per job: wait_for's deadline fired and cancelled the task
    devices,    \* _print_ble locals, per job
    address,
    name,
    model,
    data,
    off,        \* the loop variable i of range(0, len(data), mtu)
    client,     \* the address given to BleakClient(address)
    pending,    \* the exception in flight while the async with block exits
    connOpen,   \* jobs whose BLE connection is open
    io,         \* per job: how often each effect was performed
    link,       \* every chunk written to a BLE client and every pause taken, in order
    port,       \* every call of write_serial_blocking, in order
    request,    \* per handler: the request it serves
    params,     \* per handler: _handle's local, the arguments of print_text
    resp,       \* per handler: the statuses of the responses it has sent
    logged,     \* per handler: the [ERROR] lines it has printed
    render,     \* the arguments of a compose_image call
    image       \* the image that call returns

vars == <<args, lock, pc, outcome, cancelled, devices, address, name, model, data,
          off, client, pending, connOpen, io, link, port, request, params, resp, logged,
          render, image>>
http == <<request, params, resp, logged>>
layout == <<render, image>>
locals == <<devices, address, name, model, data, off, client, pending>>

Jobs == DOMAIN pc

Effects == {"scan", "compose", "encode", "connect", "open", "write"}
NoIo == [e \in Effects |-> 0]

\* Between lock acquisition and lock release.
Critical == {"scanning", "resolving_model", "require_model", "composing", "encoding",
             "connecting", "writing", "sleeping", "closing", "serial_write"}
\* Where the coroutine is suspended in an await.
Suspended == {"scanning", "connecting", "writing", "sleeping", "closing"}
Ended == {"done", "failed"}

\* The handlers and their jobs.
InitJobs(jobs, configs, requests) ==
    /\ args \in configs
    /\ request \in [jobs -> requests]
    /\ params = [i \in jobs |-> Refused(<<>>)]
    /\ resp = [i \in jobs |-> <<>>]
    /\ logged = [i \in jobs |-> 0]
    /\ lock = Unlocked
    /\ pc = [i \in jobs |-> "idle"]
    /\ outcome = [i \in jobs |-> NoError]
    /\ cancelled = [i \in jobs |-> FALSE]
    /\ devices = [i \in jobs |-> <<>>]
    /\ address = [i \in jobs |-> <<>>]
    /\ name = [i \in jobs |-> NoneStr]
    /\ model = [i \in jobs |-> NoProfile]
    /\ data = [i \in jobs |-> <<>>]
    /\ off = [i \in jobs |-> 0]
    /\ client = [i \in jobs |-> <<>>]
    /\ pending = [i \in jobs |-> NoError]
    /\ connOpen = {}
    /\ io = [i \in jobs |-> NoIo]
    /\ link = <<>>
    /\ port = <<>>
\* No compose_image call is followed.
InitWith(jobs, configs, requests) ==
    /\ InitJobs(jobs, configs, requests)
    /\ render = NoRender
    /\ image = NoImage

Count(i, e) == [io EXCEPT ![i][e] = @ + 1]

\* threading.Lock: acquire succeeds only on a free lock; release frees it.
\* Variant: no lock is taken.
LockFreeAlways(l) == TRUE
LockFree(l) == l = Unlocked
\* Leaving the with block releases the lock whatever the result.
\* Variant: acquire() and release() with no try/finally.
LockAfterNoFinally(l, result) == IF result = "ok" THEN Unlocked ELSE l
LockAfter(l, result) == Unlocked

\* with self._lock: the block is left, by return or by exception; the frame's locals die.
Finish(i, result) ==
    /\ pc' = [pc EXCEPT ![i] = IF result = "ok" THEN "done" ELSE "failed"]
    /\ outcome' = [outcome EXCEPT ![i] = result]
    /\ lock' = LockAfter(lock, result)
    /\ devices' = [devices EXCEPT ![i] = <<>>]
    /\ address' = [address EXCEPT ![i] = <<>>]
    /\ name' = [name EXCEPT ![i] = NoneStr]
    /\ model' = [model EXCEPT ![i] = NoProfile]
    /\ data' = [data EXCEPT ![i] = <<>>]
    /\ off' = [off EXCEPT ![i] = 0]
    /\ client' = [client EXCEPT ![i] = <<>>]
    /\ pending' = [pending EXCEPT ![i] = NoError]

\* _handle finds the request in order: it calls print_text, which blocks on the lock.
Call(i) ==
    /\ pc[i] = "idle"
    /\ Dispatch(request[i]).ok
    /\ params' = [params EXCEPT ![i] = Dispatch(request[i])]
    /\ pc' = [pc EXCEPT ![i] = "waiting"]
    /\ UNCHANGED <<args, request, resp, logged, layout, lock, outcome, cancelled, locals,
                   connOpen, io, link, port>>

\* _respond(code, body) writes to the client's socket twice: end_headers() flushes
\* the status line with the headers, then wfile.write sends the body.  Either write
\* raises when the socket does not take it (BrokenPipeError, ConnectionResetError),
\* so a response goes out whole, stops after its headers, or does not go out.
Deliveries == {"all", "headers", "none"}

\* The status lines the client's socket has taken once _respond(codes) was called.
Sent(log, codes, how) == IF how = "none" THEN log ELSE log \o codes

\* _respond(200) did not go out whole and _respond(500) follows on the same socket.
\* A header block whose flush raised stays in the handler's buffer and leaves with
\* the next flush, in front of the new status line.
Resent(log, first, second) ==
    IF second = "none" THEN Sent(log, <<200>>, first) ELSE log \o <<200, 500>>

\* _handle returns without calling print_text, after the responses of Dispatch, or
\* is left by the exception of _extract_params or of _respond.
Reject(i) ==
    /\ pc[i] = "idle"
    /\ ~Dispatch(request[i]).ok
    /\ \E how \in Deliveries :
         LET d == Dispatch(request[i])
         IN  /\ resp' = [resp EXCEPT ![i] = Sent(@, d.sent, how)]
             /\ pc' = [pc EXCEPT ![i] =
                         IF d.raised = NoError /\ (how = "all" \/ d.sent = <<>>)
                         THEN "returned" ELSE "raised"]
    /\ UNCHANGED <<args, request, params, logged, layout, lock, outcome, cancelled, locals,
                   connOpen, io, link, port>>

\* Lines 296-302: print_text has returned, or raised.  _respond(200) stands inside the
\* try block, so the except clause also catches the error of a response that did not
\* go out whole: the line is logged and _respond(500) is tried on the same socket,
\* whose error leaves _handle.  An error the except clause does not catch leaves
\* _handle with nothing logged and no further response.
Respond(i) ==
    /\ pc[i] \in Ended
    /\ \E first, second \in Deliveries :
         IF outcome[i] = "ok"
         THEN IF first = "all"
              THEN /\ resp' = [resp EXCEPT ![i] = Append(@, StatusFor(outcome[i]))]
                   /\ logged' = logged
                   /\ pc' = [pc EXCEPT ![i] = "returned"]
              ELSE IF Caught("BrokenPipeError")
              THEN /\ logged' = [logged EXCEPT ![i] = @ + 1]
                   /\ resp' = [resp EXCEPT ![i] = Resent(@, first, second)]
                   /\ pc' = [pc EXCEPT ![i] = IF second = "all" THEN "returned" ELSE "raised"]
              ELSE /\ resp' = [resp EXCEPT ![i] = Sent(@, <<StatusFor(outcome[i])>>, first)]
                   /\ logged' = logged
                   /\ pc' = [pc EXCEPT ![i] = "raised"]
         ELSE IF Caught(outcome[i])
         THEN /\ logged' = [logged EXCEPT ![i] = @ + 1]
              /\ resp' = [resp EXCEPT ![i] = Sent(@, <<StatusFor(outcome[i])>>, first)]
              /\ pc' = [pc EXCEPT ![i] = IF first = "all" THEN "returned" ELSE "raised"]
         ELSE /\ pc' = [pc EXCEPT ![i] = "raised"]
              /\ UNCHANGED <<resp, logged>>
    /\ UNCHANGED <<args, request, params, layout, lock, outcome, cancelled, locals,
                   connOpen, io, link, port>>

\* with self._lock: then the transport branch; the BLE branch starts its scan.
Acquire(i) ==
    /\ pc[i] = "waiting"
    /\ LockFree(lock)
    /\ lock' = i
    /\ IF Truthy(args.serial)
       THEN /\ pc' = [pc EXCEPT ![i] = "require_model"]
            /\ io' = io
       ELSE /\ pc' = [pc EXCEPT ![i] = "scanning"]
            /\ io' = Count(i, "scan")
    /\ UNCHANGED <<args, http, layout, outcome, cancelled, locals, connOpen, link, port>>

\* BleakScanner.discover returns; lines 191-201 pick the address and the name.
ScanReturn(i, Results) ==
    /\ pc[i] = "scanning"
    /\ \E devs \in Results :
        LET r == ResolveTarget(devs, args.bluetooth)
        IN  IF r.err # NoError
            THEN Finish(i, r.err)
            ELSE /\ pc' = [pc EXCEPT ![i] = "resolving_model"]
                 /\ devices' = [devices EXCEPT ![i] = devs]
                 /\ address' = [address EXCEPT ![i] = r.address]
                 /\ name' = [name EXCEPT ![i] = r.name]
                 /\ UNCHANGED <<lock, outcome, model, data, off, client, pending>>
    /\ UNCHANGED <<args, http, layout, cancelled, connOpen, io, link, port>>

\* BleakScanner.discover raises (no adapter, ...).
ScanError(i) ==
    /\ pc[i] = "scanning"
    /\ Finish(i, "TransportError")
    /\ UNCHANGED <<args, http, layout, cancelled, connOpen, io, link, port>>

\* model = resolve_model(self._registry, name, self.args.model)
\* Variant: a model that cannot be resolved is replaced by a profile of defaults.
ResolveModelOrDefault(i) ==
    /\ pc[i] = "resolving_model"
    /\ pc' = [pc EXCEPT ![i] = "composing"]
    /\ model' = [model EXCEPT ![i] = ResolveModel(name[i], args.model).model]
    /\ UNCHANGED <<args, http, layout, lock, outcome, cancelled, devices, address, name,
                   data, off, client, pending, connOpen, io, link, port>>
ResolveModelStep(i) ==
    /\ pc[i] = "resolving_model"
    /\ LET r == ResolveModel(name[i], args.model)
       IN  IF r.err # NoError
           THEN Finish(i, r.err)
           ELSE /\ pc' = [pc EXCEPT ![i] = "composing"]
                /\ model' = [model EXCEPT ![i] = r.model]
                /\ UNCHANGED <<lock, outcome, devices, address, name, data, off, client, pending>>
    /\ UNCHANGED <<args, http, layout, cancelled, connOpen, io, link, port>>

\* _print_serial: model = require_model(self._registry, self.args.model)
\* Variant: the serial path does not stop at a missing model.
RequireModelAfterBuild(i) ==
    /\ pc[i] = "require_model"
    /\ pc' = [pc EXCEPT ![i] = "composing"]
    /\ model' = [model EXCEPT ![i] = RequireModel(args.model).model]
    /\ UNCHANGED <<args, http, layout, lock, outcome, cancelled, devices, address, name, data, off,
                   client, pending, connOpen, io, link, port>>
RequireModelStep(i) ==
    /\ pc[i] = "require_model"
    /\ LET r == RequireModel(args.model)
       IN  IF r.err # NoError
           THEN Finish(i, r.err)
           ELSE /\ pc' = [pc EXCEPT ![i] = "composing"]
                /\ model' = [model EXCEPT ![i] = r.model]
                /\ UNCHANGED <<lock, outcome, devices, address, name, data, off, client, pending>>
    /\ UNCHANGED <<args, http, layout, cancelled, connOpen, io, link, port>>

\* build_print_data: compose_image returns the image, or raises.
Compose(i) ==
    /\ pc[i] = "composing"
    /\ io' = Count(i, "compose")
    /\ \/ /\ pc' = [pc EXCEPT ![i] = "encoding"]
          /\ UNCHANGED <<lock, outcome, locals>>
       \/ Finish(i, "RenderError")
    /\ UNCHANGED <<args, http, layout, cancelled, connOpen, link, port>>

\* build_print_data: the encoder returns the command stream, or raises.  On the BLE
\* path the coroutine goes on to enter "async with BleakClient(address)".
Encode(i, Strs) ==
    /\ pc[i] = "encoding"
    /\ \/ /\ \E d \in Strs : data' = [data EXCEPT ![i] = d]
          /\ off' = [off EXCEPT ![i] = 0]
          /\ IF Truthy(args.serial)
             THEN /\ pc' = [pc EXCEPT ![i] = "serial_write"]
                  /\ client' = client
                  /\ io' = Count(i, "encode")
             ELSE /\ pc' = [pc EXCEPT ![i] = "connecting"]
                  /\ client' = [client EXCEPT ![i] = address[i]]
                  /\ io' = [io EXCEPT ![i]["encode"] = @ + 1, ![i]["connect"] = @ + 1]
          /\ UNCHANGED <<lock, outcome, devices, address, name, model, pending>>
       \/ /\ Finish(i, "EncodeError")
          /\ io' = Count(i, "encode")
    /\ UNCHANGED <<args, http, layout, cancelled, connOpen, link, port>>

\* The entries of the link log.
WriteEntry(i, chunk) == [job |-> i, kind |-> "write", chunk |-> chunk]
PauseEntry(i, ms, ended) == [job |-> i, kind |-> "pause", ms |-> ms, ended |-> ended]

\* The loop body's two awaits: the chunk is written, then asyncio.sleep(interval) starts.
AfterWrite(log, i, chunk, ms) == log \o <<WriteEntry(i, chunk), PauseEntry(i, ms, FALSE)>>

\* The job's running pause has ended.
LastPause(log, i) ==
    LET ks == {k \in 1..Len(log) : log[k].job = i /\ log[k].kind = "pause"}
    IN  CHOOSE k \in ks : \A j \in ks : j <= k
\* Variant: asyncio.sleep(interval) is not awaited.
AfterSleepNotAwaited(log, i) == log
AfterSleep(log, i) == [log EXCEPT ![LastPause(log, i)].ended = TRUE]

\* for i in range(0, len(data), mtu): the next write is issued, or the block is left.
LoopOrClose(i, o) ==
    IF InRange(o, data[i])
    THEN /\ pc' = [pc EXCEPT ![i] = "writing"]
         /\ off' = [off EXCEPT ![i] = o]
    ELSE /\ pc' = [pc EXCEPT ![i] = "closing"]
         /\ off' = off

\* BleakClient.__aenter__ returns: the connection is open and the loop starts.
ConnectOk(i) ==
    /\ pc[i] = "connecting"
    /\ connOpen' = connOpen \cup {i}
    /\ LoopOrClose(i, 0)
    /\ UNCHANGED <<args, http, layout, lock, outcome, cancelled, devices, address, name,
                   model, data, client, pending, io, link, port>>

\* BleakClient.__aenter__ raises: __aexit__ is not run, the error leaves the coroutine.
ConnectFail(i) ==
    /\ pc[i] = "connecting"
    /\ Finish(i, "TransportError")
    /\ UNCHANGED <<args, http, layout, cancelled, connOpen, io, link, port>>

\* client.write_gatt_char(..., data[i : i + mtu], response=False) returns; the pause starts.
WriteOk(i) ==
    /\ pc[i] = "writing"
    /\ link' = AfterWrite(link, i, Slice(data[i], off[i], BleMtu(model[i])), IntervalMs(model[i]))
    /\ io' = Count(i, "write")
    /\ pc' = [pc EXCEPT ![i] = "sleeping"]
    /\ UNCHANGED <<args, http, layout, lock, outcome, cancelled, locals, connOpen, port>>

\* write_gatt_char raises: the async with block is left with the error in flight.
WriteFail(i) ==
    /\ pc[i] = "writing"
    /\ pc' = [pc EXCEPT ![i] = "closing"]
    /\ pending' = [pending EXCEPT ![i] = "TransportError"]
    /\ UNCHANGED <<args, http, layout, lock, outcome, cancelled, devices, address, name,
                   model, data, off, client, connOpen, io, link, port>>

\* asyncio.sleep(interval) returns; the loop steps.
SleepDone(i) ==
    /\ pc[i] = "sleeping"
    /\ link' = AfterSleep(link, i)
    /\ LoopOrClose(i, NextOffset(off[i], BleMtu(model[i])))
    /\ UNCHANGED <<args, http, layout, lock, outcome, cancelled, devices, address, name,
                   model, data, client, pending, connOpen, io, port>>

\* BleakClient.__aexit__ returns: disconnected; the error in flight, if any, is raised.
CloseDone(i) ==
    /\ pc[i] = "closing"
    /\ connOpen' = connOpen \ {i}
    /\ Finish(i, IF pending[i] = NoError THEN "ok" ELSE pending[i])
    /\ UNCHANGED <<args, http, layout, cancelled, io, link, port>>

\* BleakClient.__aexit__ raises: the disconnect failed.  Its error takes the place of
\* the error in flight, the CancelledError of the deadline included, and of a normal
\* return; whether the link is still up is for the device and the adapter to say.
CloseFail(i) ==
    /\ pc[i] = "closing"
    /\ \E stays \in BOOLEAN : connOpen' = IF stays THEN connOpen ELSE connOpen \ {i}
    /\ Finish(i, "TransportError")
    /\ UNCHANGED <<args, http, layout, cancelled, io, link, port>>

\* asyncio.wait_for(..., timeout=BLE_PRINT_TIMEOUT): the deadline's timer runs once the
\* event loop has control, that is while the coroutine is suspended in an await.
UnderDeadline(p) == p \in Suspended

\* The timer fires: the task is cancelled where it awaits.  Inside the async with
\* block the CancelledError first runs __aexit__; wait_for turns it into TimeoutError.
\* A cancellation that lands in __aexit__ itself interrupts the wait for the
\* disconnect it has requested: the link is down by then, or it is still up.
Timeout(i) ==
    /\ UnderDeadline(pc[i])
    /\ ~cancelled[i]
    /\ cancelled' = [cancelled EXCEPT ![i] = TRUE]
    /\ IF pc[i] \in {"writing", "sleeping"}
       THEN /\ pc' = [pc EXCEPT ![i] = "closing"]
            /\ pending' = [pending EXCEPT ![i] = "TimeoutError"]
            /\ connOpen' = connOpen
            /\ UNCHANGED <<lock, outcome, devices, address, name, model, data, off, client>>
       ELSE /\ \E stays \in BOOLEAN :
                 connOpen' = IF stays /\ pc[i] = "closing" THEN connOpen ELSE connOpen \ {i}
            /\ Finish(i, "TimeoutError")
    /\ UNCHANGED <<args, http, layout, io, link, port>>

\* The entry of the port log: one call of write_serial_blocking with its arguments.
SerialCall(i, path, stream, mtu, ms) ==
    [job |-> i, path |-> path, data |-> stream, mtu |-> mtu, interval_ms |-> ms]

\* write_serial_blocking(self.args.serial, data, model.img_mtu or 180,
\* model.interval_ms or 4): one blocking call of the library, which returns or raises.
SerialWrite(i) ==
    /\ pc[i] = "serial_write"
    /\ io' = Count(i, "open")
    /\ port' = Append(port, SerialCall(i, args.serial, data[i], SerialMtu(model[i]),
                                       IntervalMs(model[i])))
    /\ \E ok \in BOOLEAN : Finish(i, IF ok THEN "ok" ELSE "TransportError")
    /\ UNCHANGED <<args, http, layout, cancelled, connOpen, link>>

\* compose_image is called and returns the image.
Render ==
    /\ image = NoImage
    /\ image' = ComposeImage(render.text, render.qr, render.width, render.columns, render.lh)
    /\ UNCHANGED <<args, lock, pc, outcome, cancelled, locals, connOpen, io, link, port, http,
                   render>>

\* ------------------------------------------------------ specifications
\* Concurrent calls of print_text, few inputs each.
Init == InitWith(1..MaxJobs, FewConfigs, {LabelRequest})
Next ==
    \/ \E i \in Jobs : Call(i)
    \/ \E i \in Jobs : Acquire(i)
    \/ \E i \in Jobs : ScanReturn(i, FewScanResults)
    \/ \E i \in Jobs : ScanError(i)
    \/ \E i \in Jobs : ResolveModelStep(i)
    \/ \E i \in Jobs : RequireModelStep(i)
    \/ \E i \in Jobs : Compose(i)
    \/ \E i \in Jobs : Encode(i, FewStreams)
    \/ \E i \in Jobs : ConnectOk(i)
    \/ \E i \in Jobs : ConnectFail(i)
    \/ \E i \in Jobs : WriteOk(i)
    \/ \E i \in Jobs : WriteFail(i)
    \/ \E i \in Jobs : SleepDone(i)
    \/ \E i \in Jobs : CloseDone(i)
    \/ \E i \in Jobs : CloseFail(i)
    \/ \E i \in Jobs : Timeout(i)
    \/ \E i \in Jobs : SerialWrite(i)
Spec == Init /\ [][Next]_vars

\* One request, every configuration and every input.
InitOne == InitWith({1}, Configs, {LabelRequest})
NextOne ==
    \/ \E i \in Jobs : Call(i)
    \/ \E i \in Jobs : Acquire(i)
    \/ \E i \in Jobs : ScanReturn(i, ScanResults)
    \/ \E i \in Jobs : ScanError(i)
    \/ \E i \in Jobs : ResolveModelStep(i)
    \/ \E i \in Jobs : RequireModelStep(i)
    \/ \E i \in Jobs : Compose(i)
    \/ \E i \in Jobs : Encode(i, Streams)
    \/ \E i \in Jobs : ConnectOk(i)
    \/ \E i \in Jobs : ConnectFail(i)
    \/ \E i \in Jobs : WriteOk(i)
    \/ \E i \in Jobs : WriteFail(i)
    \/ \E i \in Jobs : SleepDone(i)
    \/ \E i \in Jobs : CloseDone(i)
    \/ \E i \in Jobs : CloseFail(i)
    \/ \E i \in Jobs : Timeout(i)
    \/ \E i \in Jobs : SerialWrite(i)
SpecOne == InitOne /\ [][NextOne]_vars

\* One handler from the request to its return, every form of request.
InitHttp == InitWith({1}, HttpConfigs, Requests)
NextHttp ==
    \/ \E i \in Jobs : Call(i)
    \/ \E i \in Jobs : Reject(i)
    \/ \E i \in Jobs : Respond(i)
    \/ \E i \in Jobs : Acquire(i)
    \/ \E i \in Jobs : ScanReturn(i, FewScanResults)
    \/ \E i \in Jobs : ScanError(i)
    \/ \E i \in Jobs : ResolveModelStep(i)
    \/ \E i \in Jobs : RequireModelStep(i)
    \/ \E i \in Jobs : Compose(i)
    \/ \E i \in Jobs : Encode(i, FewStreams)
    \/ \E i \in Jobs : ConnectOk(i)
    \/ \E i \in Jobs : ConnectFail(i)
    \/ \E i \in Jobs : WriteOk(i)
    \/ \E i \in Jobs : WriteFail(i)
    \/ \E i \in Jobs : SleepDone(i)
    \/ \E i \in Jobs : CloseDone(i)
    \/ \E i \in Jobs : CloseFail(i)
    \/ \E i \in Jobs : Timeout(i)
    \/ \E i \in Jobs : SerialWrite(i)
SpecHttp == InitHttp /\ [][NextHttp]_vars

\* One call of compose_image, every text, mode, width and font.
InitImage ==
    /\ InitJobs({}, {[serial |-> SerialPath, bluetooth |-> NoneStr, model |-> NoneStr]}, {})
    /\ render \in Renders
    /\ image = NoImage
NextImage == Render
SpecImage == InitImage /\ [][NextImage]_vars

\* Fairness.  A thread that can run does run, so every step the program takes by
\* itself is weakly fair: the synchronous steps, the end of a pause, and the
\* deadline's timer.  What the environment owes (a scan result, a connection, the
\* completion of a write, the disconnect of __aexit__, the return of
\* write_serial_blocking) carries no fairness: it may never come.
OwnStep(i) ==
    \/ Call(i)
    \/ Acquire(i)
    \/ ResolveModelStep(i)
    \/ RequireModelStep(i)
    \/ Compose(i)
    \/ Encode(i, FewStreams)
    \/ SleepDone(i)
InitFair == InitWith(1..MaxFairJobs, FewConfigs, {LabelRequest})
Fairness == \A i \in 1..MaxFairJobs : WF_vars(OwnStep(i)) /\ WF_vars(Timeout(i))
FairSpec == InitFair /\ [][Next]_vars /\ Fairness

\* ------------------------------------------------------------- claims
BleJob == ~Truthy(args.serial)
\* The chunks job i has written, in the order written.
RECURSIVE Chunks(_, _)
Chunks(log, i) ==
    IF log = <<>> THEN <<>>
    ELSE LET e == Head(log)
         IN  IF e.job = i /\ e.kind = "write"
             THEN <<e.chunk>> \o Chunks(Tail(log), i)
             ELSE Chunks(Tail(log), i)
RECURSIVE Concat(_)
Concat(cs) == IF cs = <<>> THEN <<>> ELSE Head(cs) \o Concat(Tail(cs))
\* The calls of write_serial_blocking job i has made, in the order made.
Calls(log, i) == SelectSeq(log, LAMBDA e : e.job = i)
\* The positions of the link log at which a chunk was written.
WritePositions(log) == {k \in 1..Len(log) : log[k].kind = "write"}

\* C1: at most one job is between lock acquisition and lock release, that job holds
\* the lock, every other request is still outside or has reached Done or Failed, and
\* at most one job is transmitting.
C1_MutualExclusion ==
    /\ Cardinality({i \in Jobs : pc[i] \in Critical}) <= 1
    /\ \A i \in Jobs : pc[i] \in Critical => lock = i
    /\ \A i, j \in Jobs :
         (i # j /\ pc[i] \in Critical) => pc[j] \in {"idle", "waiting", "done", "failed"}
    /\ Cardinality({i \in Jobs : pc[i] \in {"writing", "sleeping", "serial_write"}}) <= 1
\* A job is delivering while a concurrent request waits for the lock.
C1_Witness == \E i, j \in Jobs : pc[i] = "writing" /\ pc[j] = "waiting"

\* C2: the step that ends a job, whatever its outcome, leaves the lock free, so the
\* guard of Acquire holds for a waiting request.
C2_LockReleasedAtEnd ==
    [][\A i \in Jobs : (pc[i] \in Critical /\ pc'[i] \in Ended) => lock' = Unlocked]_vars
\* A job was abandoned at the deadline and a later request holds the lock.
C2_Witness ==
    \E i, j \in Jobs : outcome[i] = "TimeoutError" /\ pc[j] \in Critical /\ lock = j

\* C3: with the BLE transport a job that holds the lock eventually reaches Done or
\* Failed, whatever phase it is in and even if the scan, the connection or a write
\* never completes; a job the deadline has cancelled ends as a timeout failure.
\* (A disconnect that never completes keeps a cancelled job from ending at all, and
\* one that raises ends it with its own error.)
C3_JobEnds ==
    /\ \A i \in 1..MaxFairJobs : (BleJob /\ pc[i] \in Critical) ~> (pc[i] \in Ended)
    /\ [](\A i \in 1..MaxFairJobs :
            (cancelled[i] /\ pc[i] \in Ended) =>
                (pc[i] = "failed" /\ outcome[i] = "TimeoutError"))

\* C4: no step that touches the link or the port leaves the chunks of two jobs
\* interleaved, and a job that has been reported Done or Failed writes no further
\* chunk and makes no further call on the port.
NoInterleaving(log) ==
    \A p, q, r \in WritePositions(log) :
        (p < q /\ q < r /\ log[p].job = log[r].job) => log[q].job = log[p].job
C4_NoInterleaving ==
    [][ (link' # link \/ port' # port) =>
          /\ NoInterleaving(link')
          /\ \A i \in Jobs :
               pc[i] \in Ended =>
                   (Chunks(link', i) = Chunks(link, i) /\ Calls(port', i) = Calls(port, i)) ]_vars
\* Two jobs have each written chunks, the first only a part of its stream.
C4_Witness ==
    \E i, j \in Jobs :
        /\ i # j /\ Chunks(link, i) # <<>> /\ Chunks(link, j) # <<>>
        /\ outcome[i] \in {"TimeoutError", "TransportError"}
        /\ pc[j] = "done"

\* The async with block of job i has been entered or is being entered.
Connecting(i) == pc[i] \in {"connecting", "writing", "sleeping", "closing"}
\* The loop of job i ran to its end: the block is being left with no error in flight.
Delivered(i) == BleJob /\ pc[i] = "closing" /\ pending[i] = NoError

\* C5: a BLE delivery that completes has written the positional MTU-slicing of the
\* stream: the chunks concatenate to the stream, every chunk but the last has MTU
\* bytes, the last has 1..MTU bytes.
C5_ChunksCoverStream ==
    \A i \in Jobs :
        Delivered(i) =>
            LET cs == Chunks(link, i)
                mtu == IF model[i].img_mtu >= 1 THEN model[i].img_mtu ELSE 20
            IN  /\ Concat(cs) = data[i]
                /\ \A k \in 1..Len(cs) :
                     IF k < Len(cs) THEN Len(cs[k]) = mtu ELSE Len(cs[k]) \in 1..mtu
\* A delivery of several chunks completed whose stream the MTU does not divide.
C5_Witness ==
    \E i \in Jobs :
        /\ Delivered(i)
        /\ model[i].img_mtu >= 2
        /\ Len(data[i]) % model[i].img_mtu # 0
        /\ Len(Chunks(link, i)) >= 2

\* C6: between two consecutive chunk writes of a job lies a pause of that job, of the
\* profile's write interval (4 ms when it gives none), that has ended.
C6_PacedWrites ==
    \A i \in Jobs : \A p, q \in WritePositions(link) :
        ( /\ BleJob /\ p < q /\ link[p].job = i /\ link[q].job = i
          /\ Connecting(i)
          /\ \A r \in WritePositions(link) : ~(p < r /\ r < q /\ link[r].job = i) )
        => \E r \in (p + 1)..(q - 1) :
              /\ link[r].kind = "pause" /\ link[r].job = i
              /\ link[r].ended
              /\ link[r].ms =
                    IF model[i].interval_ms >= 1 THEN model[i].interval_ms ELSE 4
\* Two chunks were written by a job whose profile gives no write interval.
C6_Witness ==
    \E i \in Jobs :
        /\ BleJob /\ Connecting(i)
        /\ model[i].interval_ms = 0
        /\ Len(Chunks(link, i)) >= 2

\* C7: a connection is open only while its job is inside the async with block; none
\* is open once the job has returned, nor at any moment the lock is free.  (A
\* disconnect that raises lets the job return with the link possibly still up.)
C7_ConnectionClosed ==
    /\ \A i \in connOpen : pc[i] \in {"writing", "sleeping", "closing"}
    /\ lock = Unlocked => connOpen = {}
\* The scan of job i has returned and the job has gone on.
Resolved(i) == pc[i] = "resolving_model" \/ pc[i] \in {"composing", "encoding"} \/ Connecting(i)
\* The device's advertised name starts with the target, letter case ignored.
NameHasPrefix(d, target) ==
    /\ d.name # NoneStr
    /\ Len(d.name) >= Len(target)
    /\ \A k \in 1..Len(target) : Lower(d.name[k]) = Lower(target[k])

\* C8: with a target that has no colon the job scans once; it goes on, and connects,
\* only with the address of the first scanned device whose name starts with the
\* target, case ignored; with no such device it fails as device-not-found and never
\* constructs a client.
C8_NamePrefixResolution ==
    \A i \in Jobs :
        (BleJob /\ ~HasColon(args.bluetooth)) =>
            /\ pc[i] \in Critical => io[i]["scan"] = 1
            /\ pc[i] \in Ended => io[i]["scan"] = 1
            /\ Resolved(i) =>
                 \E k \in 1..Len(devices[i]) :
                    /\ NameHasPrefix(devices[i][k], args.bluetooth)
                    /\ \A j \in 1..(k - 1) : ~NameHasPrefix(devices[i][j], args.bluetooth)
                    /\ address[i] = devices[i][k].address
                    /\ Connecting(i) => client[i] = devices[i][k].address
            /\ outcome[i] = "DeviceNotFoundError" => (io[i]["connect"] = 0 /\ client[i] = <<>>)
\* The job connects to the second scanned device: the first has no name, and the
\* match differs from the target in letter case.
C8_Witness ==
    \E i \in Jobs :
        /\ BleJob /\ ~HasColon(args.bluetooth)
        /\ pc[i] = "connecting"
        /\ Len(devices[i]) = 2
        /\ devices[i][1].name = NoneStr
        /\ devices[i][2].name # NoneStr
        /\ ~StartsWith(devices[i][2].name, args.bluetooth)
        /\ client[i] = devices[i][2].address

\* C9: with a hardware address as target the job always goes on with the configured
\* address itself and connects to it; no scan result makes it fail as
\* device-not-found; the scan supplies only the name (the match's, else the target).
C9_AddressTarget ==
    \A i \in Jobs :
        (BleJob /\ HasColon(args.bluetooth)) =>
            /\ outcome[i] # "DeviceNotFoundError"
            /\ Resolved(i) =>
                 /\ address[i] = args.bluetooth
                 /\ Connecting(i) => client[i] = args.bluetooth
                 /\ name[i] =
                      IF \E k \in 1..Len(devices[i]) :
                            LowerStr(devices[i][k].address) = LowerStr(args.bluetooth)
                      THEN LET k == CHOOSE k \in 1..Len(devices[i]) :
                                      /\ LowerStr(devices[i][k].address) = LowerStr(args.bluetooth)
                                      /\ \A j \in 1..(k - 1) :
                                           LowerStr(devices[i][j].address) # LowerStr(args.bluetooth)
                           IN  devices[i][k].name
                      ELSE args.bluetooth
\* The job connects to the configured address after a scan that found no device
\* with that address.
C9_Witness ==
    \E i \in Jobs :
        /\ BleJob /\ HasColon(args.bluetooth)
        /\ pc[i] = "connecting"
        /\ devices[i] # <<>>
        /\ \A k \in 1..Len(devices[i]) :
              LowerStr(devices[i][k].address) # LowerStr(args.bluetooth)
        /\ client[i] = args.bluetooth

\* C10: with the serial transport and no model override every job fails with the
\* model-required error before any I/O: nothing is composed, encoded, opened or written.
C10_SerialNeedsModel ==
    (Truthy(args.serial) /\ args.model = NoneStr) =>
        /\ link = <<>> /\ port = <<>>
        /\ \A i \in Jobs :
             /\ io[i] = NoIo
             /\ pc[i] \in {"idle", "waiting", "require_model", "failed"}
             /\ pc[i] = "failed" => outcome[i] = "ModelRequiredError"
\* A serial job without a model override has failed.
C10_Witness ==
    \E i \in Jobs :
        /\ Truthy(args.serial) /\ args.model = NoneStr
        /\ pc[i] = "failed" /\ outcome[i] = "ModelRequiredError"

\* The job of handler i ended with an error.
Failed(i) == outcome[i] \notin {NoError, "ok"}

\* C11: whatever error a job ends with, the handler prints exactly one [ERROR] line
\* and calls _respond(500) once: no other status is sent, the handler returns once
\* the 500 has gone out whole, and the only error that leaves it is that of a 500
\* the client's socket did not take, or took the headers of only.  Nothing is
\* logged or sent before print_text has ended, and the one other [ERROR] line is
\* that of a 200 that did not go out whole.
C11_FailureConverted ==
    \A i \in Jobs :
        /\ (Failed(i) /\ pc[i] \in {"returned", "raised"}) =>
              /\ logged[i] = 1
              /\ resp[i] \in {<<>>, <<500>>}
              /\ pc[i] = "returned" => resp[i] = <<500>>
        /\ logged[i] <= 1
        /\ (logged[i] = 1 /\ ~Failed(i)) =>
              /\ outcome[i] = "ok" /\ pc[i] \in {"returned", "raised"}
              /\ resp[i] \in {<<>>, <<200>>, <<200, 500>>}
              /\ pc[i] = "returned" => resp[i] = <<200, 500>>
        /\ pc[i] \notin {"returned", "raised"} => (resp[i] = <<>> /\ logged[i] = 0)
\* A job abandoned at the deadline after a partial delivery was answered 500.
C11_Witness ==
    \E i \in Jobs :
        /\ pc[i] = "returned" /\ outcome[i] = "TimeoutError" /\ io[i]["write"] >= 1
        /\ resp[i] = <<500>> /\ logged[i] = 1

\* C12: a job scans, composes, encodes, connects and calls the port at most once;
\* its k-th write is the k-th slice of its stream, so no chunk is written twice;
\* and once an error is in flight or the job has failed it performs no further
\* effect and is not started again.
C12_NoRetry ==
    /\ [](\A i \in Jobs :
            /\ \A e \in Effects \ {"write"} : io[i][e] <= 1
            /\ Len(Calls(port, i)) <= 1)
    /\ [][ \A i \in Jobs :
             /\ Chunks(link', i) # Chunks(link, i) =>
                  LET cs == Chunks(link', i)
                      mtu == BleMtu(model[i])
                  IN  /\ Len(cs) * mtu < Len(data[i]) + mtu
                      /\ \A k \in 1..Len(cs) :
                           cs[k] = SubSeq(data[i], (k - 1) * mtu + 1, Min(k * mtu, Len(data[i])))
             /\ (Failed(i) \/ pending[i] # NoError) =>
                  /\ io'[i] = io[i]
                  /\ Chunks(link', i) = Chunks(link, i)
                  /\ Calls(port', i) = Calls(port, i)
                  /\ i \in connOpen' => i \in connOpen
                  /\ pc[i] = "failed" => pc'[i] = "failed" ]_vars
\* A job failed on a write fault after two chunks, with one scan and one connection.
C12_Witness ==
    \E i \in Jobs :
        /\ pc[i] = "failed" /\ outcome[i] = "TransportError"
        /\ Len(Chunks(link, i)) = 2
        /\ io[i]["scan"] = 1 /\ io[i]["connect"] = 1

\* The request of handler i carries a text or qr query parameter that parse_qs keeps.
QueryForm(r) == \E k \in 1..Len(r.query) : r.query[k].k \in {TextKey, QrKey} /\ r.query[k].v # <<>>
\* The request is served from its JSON body, which is read.
BodyRead(r) ==
    /\ r.path = "/print" /\ r.method = "POST" /\ ~QueryForm(r)
    /\ r.clen.h = "int" /\ r.clen.n >= 1 /\ r.clen.n <= MaxBodyBytes
\* The key occurs in the query string, or in the JSON object.
InQuery(r, key) == \E k \in 1..Len(r.query) : r.query[k].k = key
InBody(r, key) == r.body.t = "dict" /\ \E k \in 1..Len(r.body.pairs) : r.body.pairs[k].k = key
\* The request carries the qr key, in the form it is served from.
CarriesQrKey(r) == IF QueryForm(r) THEN InQuery(r, QrKey) ELSE InBody(r, QrKey)

\* C13: print_text is called in text-only mode (qr_data None) exactly when the
\* request carries no qr key; a request with the key, whatever its value, is not.
C13_TextOnlyIffNoQrKey ==
    \A i \in Jobs :
        (params[i].ok /\ (QueryForm(request[i]) \/ BodyRead(request[i]))) =>
            (params[i].qr = NoneStr <=> ~CarriesQrKey(request[i]))

\* The qr payload of the request: the string under the qr key that is not blank,
\* else None.
QrValue(r) ==
    IF QueryForm(r) THEN QueryParam(r.query, QrKey)
    ELSE IF BodyRead(r) /\ InBody(r, QrKey) /\ Get(r.body.pairs, QrKey).t = "str"
         THEN Get(r.body.pairs, QrKey).s
         ELSE NoneStr
QrPayload(r) == IF IsBlank(QrValue(r)) THEN NoneStr ELSE QrValue(r)
\* The request has no text key, or an empty string under it.
TextAbsentOrEmpty(r) ==
    IF QueryForm(r) THEN \A k \in 1..Len(r.query) : r.query[k].k = TextKey => r.query[k].v = <<>>
    ELSE \/ ~InBody(r, TextKey)
         \/ Get(r.body.pairs, TextKey).t = "str" /\ Get(r.body.pairs, TextKey).s = <<>>

\* C14: a request for /print that carries a qr payload and no text, or an empty
\* text, is passed to print_text with the qr payload as its display text.
C14_TextDefaultsToQr ==
    \A i \in Jobs :
        ( /\ pc[i] # "idle"
          /\ request[i].path = "/print"
          /\ QrPayload(request[i]) # NoneStr
          /\ TextAbsentOrEmpty(request[i]) )
        => (params[i].ok /\ params[i].text = QrPayload(request[i]))

\* What the claim calls malformed.  The Content-Length header and the body are
\* those of a POST for /print; the body is the one a Content-Length within the
\* limit announces.
WrongPath(r) == r.path # "/print"
PostPrint(r) == r.path = "/print" /\ r.method = "POST"
BodyGiven(r) == PostPrint(r) /\ r.clen.h = "int" /\ r.clen.n >= 1 /\ r.clen.n <= MaxBodyBytes
BadLength(r) == PostPrint(r) /\ (r.clen.h = "text" \/ (r.clen.h = "int" /\ r.clen.n < 0))
BadJson(r) == BodyGiven(r) /\ r.body.t \in {"invalid", "raises"}
NotObject(r) == BodyGiven(r) /\ r.body.t \notin {"invalid", "raises", "dict"}
BadQr(r) == BodyGiven(r) /\ InBody(r, QrKey) /\ Get(r.body.pairs, QrKey).t \notin {"null", "str"}
Malformed(r) == WrongPath(r) \/ BadLength(r) \/ BadJson(r) \/ NotObject(r) \/ BadQr(r)
\* The display text the request yields consists of whitespace only.
EmptyText(r) ==
    /\ r.path = "/print" /\ ExtractParams(r).ok
    /\ \A k \in 1..Len(ExtractParams(r).text) : ExtractParams(r).text[k] \in Whitespace

\* C15: for a malformed request, and for one whose display text is empty after
\* trimming, print_text is never called and the lock never taken: the handler has
\* no parameters, its job no outcome and no effect, and it has answered nothing but
\* the 404 or 400 of the rejection, which it has sent when it has returned.  (A
\* handler left by an exception, of json.loads or of a response the socket did not
\* take whole, has answered at most that; one left by the ValueError of a target
\* urlparse rejects has answered nothing.)
C15_RejectedBeforePrint ==
    \A i \in Jobs :
        (Malformed(request[i]) \/ EmptyText(request[i])) =>
            /\ pc[i] \in {"idle", "returned", "raised"}
            /\ resp[i] \in {<<>>, <<400>>, <<404>>}
            /\ ~params[i].ok
            /\ lock # i
            /\ outcome[i] = NoError /\ io[i] = NoIo /\ Chunks(link, i) = <<>>
            /\ pc[i] = "returned" => resp[i] \in {<<400>>, <<404>>}

\* C16: with no QR data and a non-empty text the image is as wide as the paper and
\* as high as the line height times the number of lines that newline splitting, tab
\* expansion and word wrapping give.
C16_TextOnlySize ==
    (image # NoImage /\ render.qr = NoneStr /\ render.text # <<>>) =>
        /\ image.width = render.width
        /\ image.height = render.lh * Len(TextLines(render.text, render.columns))
\* A text-only image of three lines, one of them blank, on paper of odd width.
C16_Witness ==
    /\ image # NoImage /\ render.qr = NoneStr
    /\ render.width % 2 = 1
    /\ render.text = <<"a", "\n", "\n">>
    /\ image.height = 3 * render.lh /\ render.lh >= 2

\* The part is centred between the top and the bottom of an image of that height.
Centred(box, height) ==
    /\ box.y >= 0
    /\ box.y + box.h <= height
    /\ (height - box.y - box.h) - box.y \in {0, 1}

\* C17: with QR data the image is as wide as the paper and max(qrSize,
\* textBlockHeight) high, qrSize being half the width rounded down; the QR code is
\* a qrSize square on columns [0, qrSize), the text block takes columns
\* [qrSize, width); the two do not overlap, lie inside the image and are each
\* centred vertically with a non-negative offset.
C17_QrLayout ==
    (image # NoImage /\ render.qr # NoneStr) =>
        LET qrSize == render.width \div 2
            textBlockHeight == render.lh * Len(TextLines(render.text, render.columns))
        IN  /\ image.width = render.width
            /\ image.height = Max(qrSize, textBlockHeight)
            /\ image.qr_box.x = 0 /\ image.qr_box.w = qrSize /\ image.qr_box.h = qrSize
            /\ image.text_box.x = qrSize
            /\ image.text_box.x + image.text_box.w = render.width
            /\ image.text_box.h = textBlockHeight
            /\ image.qr_box.x + image.qr_box.w <= image.text_box.x
            /\ Centred(image.qr_box, image.height)
            /\ Centred(image.text_box, image.height)
\* A QR image on paper of odd width whose text block is higher than the QR code.
C17_Witness ==
    /\ image # NoImage /\ render.qr # NoneStr
    /\ render.width % 2 = 1
    /\ image.text_box.h >= image.qr_box.h + 2
    /\ image.qr_box.y >= 1

\* C18: a handler that has returned from a request for /print has sent exactly one
\* response (two status lines only when the 200 did not go out whole and the 500
\* followed it on the same socket), and the only error that leaves a handler is
\* that of a response the client's socket did not take whole.
C18_ExactlyOneResponse ==
    \A i \in Jobs :
        request[i].path = "/print" =>
            /\ pc[i] = "returned" => (Len(resp[i]) = 1 \/ resp[i] = <<200, 500>>)
            /\ pc[i] = "raised" => (Len(resp[i]) <= 2 /\ Dispatch(request[i]).raised = NoError)

\* Before the delivery: the steps that resolve the device, determine the model,
\* compose the image and encode it.
Preparing == {"scanning", "resolving_model", "require_model", "composing", "encoding"}
\* Job i has attempted a connection, called the serial port or written a chunk.
Transmitted(i) ==
    \/ io[i]["connect"] >= 1 \/ io[i]["open"] >= 1 \/ io[i]["write"] >= 1
    \/ i \in connOpen \/ Chunks(link, i) # <<>> \/ Calls(port, i) # <<>>

\* C19: a job attempts a connection, calls the port or writes only after one
\* composition and one encoding, after its one scan on the BLE path, with the
\* profile of a registered model, and on the BLE path with the resolved address;
\* a job that fails while preparing has transmitted nothing, then and ever after.
C19_PrepareBeforeDelivery ==
    /\ [](\A i \in Jobs :
            /\ Transmitted(i) =>
                 /\ io[i]["compose"] = 1 /\ io[i]["encode"] = 1
                 /\ BleJob => io[i]["scan"] = 1
                 /\ outcome[i] \notin {"DeviceNotFoundError", "UnknownModelError",
                                      "ModelRequiredError", "RenderError", "EncodeError"}
            /\ (Connecting(i) \/ pc[i] = "serial_write") =>
                 /\ model[i].model_no \in ModelNos
                 /\ BleJob => (address[i] # <<>> /\ client[i] = address[i]) )
    /\ [][ \A i \in Jobs :
             /\ (pc[i] \in Preparing /\ pc'[i] = "failed") => ~Transmitted(i)'
             /\ (pc[i] = "failed" /\ ~Transmitted(i)) => ~Transmitted(i)' ]_vars
\* A BLE job failed in the encoding, after one scan and one composition.
C19_Witness ==
    \E i \in Jobs :
        /\ BleJob /\ pc[i] = "failed" /\ outcome[i] = "EncodeError"
        /\ io[i]["scan"] = 1 /\ io[i]["compose"] = 1 /\ io[i]["connect"] = 0

\* The statuses handler i has answered with.
Answers(i) == {resp[i][k] : k \in 1..Len(resp[i])}

\* C20: the step that makes a job done has written the whole stream (chunk by chunk
\* to the BLE client, or in the one call of the serial port, which returned), leaves
\* its connection closed and the lock free; a 200 is sent only by a handler whose
\* job is done, whether or not the client takes the body after the status line,
\* and is never among the answers of a job that failed.
C20_OkOnlyAfterDelivery ==
    /\ [](\A i \in Jobs :
            200 \in Answers(i) =>
                (outcome[i] = "ok" /\ pc[i] \in {"returned", "raised"} /\ lock # i
                 /\ i \notin connOpen))
    /\ [][ \A i \in Jobs :
             /\ (pc[i] # "done" /\ pc'[i] = "done") =>
                  /\ IF BleJob
                     THEN Concat(Chunks(link', i)) = data[i]
                     ELSE \E k \in 1..Len(port') : port'[k].job = i /\ port'[k].data = data[i]
                  /\ i \notin connOpen'
                  /\ lock' = Unlocked
             /\ (200 \in Answers(i)' /\ 200 \notin Answers(i)) =>
                  (pc[i] = "done" /\ outcome[i] = "ok" /\ lock # i /\ i \notin connOpen) ]_vars
\* A request was answered 200 after a BLE delivery of two chunks.
C20_Witness ==
    \E i \in Jobs :
        /\ BleJob /\ resp[i] = <<200>> /\ pc[i] = "returned"
        /\ Len(Chunks(link, i)) >= 2 /\ lock = Unlocked /\ connOpen = {}
====
